---- MODULE Spec2Model ----
(***************************************************************************)
(* Valve test engine of the production test jig firmware                   *)
(* (Components/ValveCtrl): the session record ValveCtrl_Context_t, the     *)
(* capability interface ValveCtrl_HAL_t as the port layer implements it,   *)
(* and the operations Init, Start, Stop, Loop and OnResponse.              *)
(***************************************************************************)
EXTENDS Integers, Sequences, FiniteSets, TLC

(* ------------------------------------------------------------------------ *)
(* Enumerations and constants of valve_ctrl_def.h                           *)
(* ------------------------------------------------------------------------ *)

\* VT_StepResult
VT_STEP_BUSY == 1
VT_STEP_SUCCESS == 2
VT_STEP_FAIL == 4
VT_STEP_MISMATCH == 5

\* VT_TestResult
VT_IDLE == 0
VT_RUNNING == 1
VT_SUCCESS == 2
VT_TIMEOUT == 3
VT_FAIL == 4

\* VT_FailReason
VT_FAIL_NONE == 0
VT_FAIL_CONFIG_TIMEOUT == 1
VT_FAIL_CONFIG_RETRY == 2
VT_FAIL_INITIAL_VOLTAGE_A == 6
VT_FAIL_INITIAL_VOLTAGE_B == 7
VT_FAIL_INITIAL_RETRY == 8
VT_FAIL_OPEN_CMD_TIMEOUT == 9
VT_FAIL_OPEN_DETECT_TIMEOUT == 10
VT_FAIL_OPEN_STATE_CHECK == 11
VT_FAIL_CLOSE_CMD_TIMEOUT == 12
VT_FAIL_CLOSE_DETECT_TIMEOUT == 13
VT_FAIL_CLOSE_STATE_CHECK == 14
VT_FAIL_TOTAL_TIMEOUT == 15

\* VT_TestStep
VT_STEP_INIT == 0
VT_STEP_CONFIG == 1
VT_STEP_QUERY_INITIAL == 2
VT_STEP_CHECK_INITIAL == 3
VT_STEP_SEND_OPEN == 4
VT_STEP_DETECT_OPENING == 5
VT_STEP_OUTPUT_OPEN_SIGNAL == 6
VT_STEP_QUERY_OPEN_STATE == 7
VT_STEP_CHECK_OPEN_STATE == 8
VT_STEP_SEND_CLOSE == 9
VT_STEP_DETECT_CLOSING == 10
VT_STEP_OUTPUT_CLOSE_SIGNAL == 11
VT_STEP_QUERY_CLOSE_STATE == 12
VT_STEP_CHECK_CLOSE_STATE == 13
VT_STEP_EVALUATE == 14
VT_STEP_DONE == 15

\* ValveMeterType
VALVE_METER_MECHANICAL == 0
VALVE_METER_ULTRASONIC == 1

\* thresholds (mV), timeouts and delays (ms), retry budget
VALVE_VOLTAGE_LOW_THRESHOLD == 100
VALVE_VOLTAGE_HIGH_THRESHOLD == 2800
VALVE_TOTAL_TIMEOUT_MS == 60000
VALVE_CONFIG_TIMEOUT_MS == 10000
VALVE_INITIAL_CHECK_TIMEOUT_MS == 5000
VALVE_OPEN_CMD_TIMEOUT_MS == 5000
VALVE_OPEN_DETECT_TIMEOUT_MS == 5000
VALVE_CLOSE_CMD_TIMEOUT_MS == 5000
VALVE_CLOSE_DETECT_TIMEOUT_MS == 15000
VALVE_STATE_CHECK_TIMEOUT_MS == 5000
VALVE_CONFIG_DELAY_MS == 500
VALVE_CMD_DELAY_MS == 500
VALVE_SIGNAL_DELAY_MS == 500
VALVE_MAX_RETRY_COUNT == 3

\* protocol codes: 0xC022, 0x2036, 0x2604
PROTOCOL_VALVE_CONTROL == 49186
PROTOCOL_CONFIG_ULTRASONIC == 8246
PROTOCOL_CONFIG_MECHANICAL == 9732

\* The uint32_t timers are counted in units of 4 ms, so that their full
\* 32-bit range (2^32 ms = 2^30 units) stays within the integers of the model
\* checker; every time of the program is a multiple of 4 ms.
TIME_UNIT_MS == 4
UINT32_MOD == 1073741824
UINT8_MOD == 256

\* a time in ms as a timer value
Ms(t) == t \div TIME_UNIT_MS

(* ------------------------------------------------------------------------ *)
(* Inputs the environment may supply                                        *)
(* ------------------------------------------------------------------------ *)

\* tick_ms values a caller passes to Loop (0 = two calls within one ms)
Ticks == {Ms(0), Ms(5000)}

\* a tick_ms so large that the 32-bit timers wrap: 2^32 - 5000 ms
WrapTick == UINT32_MOD - Ms(5000)

\* a tick_ms just small enough that total_time_ms cannot wrap:
\* 2^32 - 60000 - 4 ms
BigTick == UINT32_MOD - Ms(VALVE_TOTAL_TIMEOUT_MS) - 1

\* millivolt readings: below, at and above each threshold
Volts == {99, 100, 2800, 3000}

\* response codes the protocol layer may hand to OnResponse: each is the
\* acknowledgement one wait step expects and a mismatch for the others
Codes == {PROTOCOL_CONFIG_MECHANICAL, PROTOCOL_VALVE_CONTROL}

\* Test_jiejuo_jilu.biaoju_leixing_famen of the jig: 0 = mechanical meter
MeterConfigs == {0}

\* cap of the observation counters (they saturate at this value)
MaxCount == 4

VARIABLES
  ctx,        \* ValveCtrl_Context_t g_valve_ctx
  hal,        \* what the port layer holds behind ValveCtrl_HAL_t
  last_op,    \* the operation that produced this state
  ret,        \* value returned by the last Loop call
  obs,        \* observation record of the running session (history)
  race,       \* a Loop call and an OnResponse call taken statement by
              \* statement: their positions, what they have read so far
  rm          \* the retry manager and the delay of the time manager it
              \* uses (rm.s), and what its calls returned and invoked (rm.h)

vars == <<ctx, hal, last_op, ret, obs, race, rm>>

(* ------------------------------------------------------------------------ *)
(* Capability interface (valve_ctrl_port.c) on a state st = [ctx, hal]       *)
(* ------------------------------------------------------------------------ *)

\* send_config / send_open_valve / send_close_valve: fire and forget.
\* hal.close_sent_asserted remembers that a close command went out while a
\* position output was asserted (the levels the port drove last)
HAL_send(st, cmd) ==
  [st EXCEPT !.hal.sent = Append(@, cmd),
             !.hal.close_sent_asserted =
               @ \/ (cmd = "close" /\ (st.hal.open_signal # 0
                                          \/ st.hal.close_signal # 0))]

HAL_set_soft_delay(st, ms) == [st EXCEPT !.hal.soft_delay = ms]

HAL_is_soft_delay_done(st) == st.hal.soft_delay = 0

\* (a deliberately wrong variant, which C37 must tell apart: an output is
\* asserted on 1 and left as it is on 0)
HAL_output_valve_position_signals_AssertOnly(st, open_signal, close_signal) ==
  [st EXCEPT !.hal.open_signal = IF open_signal # 0 THEN 1 ELSE @,
             !.hal.close_signal = IF close_signal # 0 THEN 1 ELSE @]

HAL_output_valve_position_signals(st, open_signal, close_signal) ==
  [st EXCEPT !.hal.open_signal = open_signal,
             !.hal.close_signal = close_signal]

HAL_restore_gpio_to_input(st) ==
  [st EXCEPT !.hal.open_signal = 0, !.hal.close_signal = 0]

HAL_get_meter_type(meter) ==
  IF meter = 0 THEN VALVE_METER_MECHANICAL ELSE VALVE_METER_ULTRASONIC

HAL_get_expected_config_code(meter) ==
  IF meter = 0 THEN PROTOCOL_CONFIG_MECHANICAL ELSE PROTOCOL_CONFIG_ULTRASONIC

(* ------------------------------------------------------------------------ *)
(* Internal helpers of valve_ctrl_core.c                                    *)
(* ------------------------------------------------------------------------ *)

\* (a deliberately wrong variant, which C32 must tell apart: the retry
\* counter is carried over into the entered step)
enter_step_KeepRetry(st, step, timeout_ms) ==
  [st EXCEPT !.ctx.current_step = step,
             !.ctx.step_time_ms = 0,
             !.ctx.step_timeout_ms = Ms(timeout_ms),
             !.ctx.response_received = 0]

enter_step(st, step, timeout_ms) ==
  [st EXCEPT !.ctx.current_step = step,
             !.ctx.step_time_ms = 0,
             !.ctx.step_timeout_ms = Ms(timeout_ms),
             !.ctx.response_received = 0,
             !.ctx.retry_count = 0]

\* result of a step helper: the state it leaves and its VT_StepResult
StepRes(st, r) == [st |-> st, r |-> r]

step_wait_response(st, expected_code) ==
  IF st.ctx.response_received # 1
  THEN IF st.ctx.step_time_ms >= st.ctx.step_timeout_ms
       THEN StepRes(st, VT_STEP_FAIL)
       ELSE StepRes(st, VT_STEP_BUSY)
  ELSE IF st.ctx.response_code = expected_code
       THEN StepRes([st EXCEPT !.ctx.response_received = 0], VT_STEP_SUCCESS)
       ELSE StepRes([st EXCEPT !.ctx.response_received = 2], VT_STEP_MISMATCH)

\* (a deliberately wrong variant, which C14 must tell apart: >= in place of >
\* in the retry test)
step_wait_response_with_retry_Early(st, expected_code, resend_func, success_delay_ms, fail_delay_ms) ==
  LET w  == step_wait_response(st, expected_code)
      s1 == IF w.r = VT_STEP_SUCCESS /\ success_delay_ms > 0
            THEN HAL_set_soft_delay(w.st, success_delay_ms)
            ELSE w.st
  IN IF w.r = VT_STEP_MISMATCH
     THEN LET n  == (s1.ctx.retry_count + 1) % UINT8_MOD
              s2 == [s1 EXCEPT !.ctx.retry_count = n]
          IN IF n >= s2.ctx.retry_max
             THEN LET s3 == [s2 EXCEPT !.ctx.retry_count = 0]
                  IN StepRes(IF fail_delay_ms > 0
                             THEN HAL_set_soft_delay(s3, fail_delay_ms)
                             ELSE s3, VT_STEP_FAIL)
             ELSE StepRes(HAL_send(s2, resend_func), VT_STEP_BUSY)
     ELSE IF w.r = VT_STEP_FAIL /\ fail_delay_ms > 0
          THEN StepRes(HAL_set_soft_delay(s1, fail_delay_ms), w.r)
          ELSE StepRes(s1, w.r)

\* resend_func is one of resend_config, resend_open_valve, resend_close_valve,
\* given here as the command it sends
step_wait_response_with_retry(st, expected_code, resend_func, success_delay_ms, fail_delay_ms) ==
  LET w  == step_wait_response(st, expected_code)
      s1 == IF w.r = VT_STEP_SUCCESS /\ success_delay_ms > 0
            THEN HAL_set_soft_delay(w.st, success_delay_ms)
            ELSE w.st
  IN IF w.r = VT_STEP_MISMATCH
     THEN LET n  == (s1.ctx.retry_count + 1) % UINT8_MOD
              s2 == [s1 EXCEPT !.ctx.retry_count = n]
          IN IF n > s2.ctx.retry_max
             THEN LET s3 == [s2 EXCEPT !.ctx.retry_count = 0]
                  IN StepRes(IF fail_delay_ms > 0
                             THEN HAL_set_soft_delay(s3, fail_delay_ms)
                             ELSE s3, VT_STEP_FAIL)
             ELSE StepRes(HAL_send(s2, resend_func), VT_STEP_BUSY)
     ELSE IF w.r = VT_STEP_FAIL /\ fail_delay_ms > 0
          THEN StepRes(HAL_set_soft_delay(s1, fail_delay_ms), w.r)
          ELSE StepRes(s1, w.r)

(* ------------------------------------------------------------------------ *)
(* ValveCtrl_Core_Loop, one operator per case of its switch.  Each returns   *)
(* the state it leaves and the VT_TestResult the call returns.               *)
(* ------------------------------------------------------------------------ *)

LoopRes(st, r) == [st |-> st, ret |-> r]

\* (a deliberately wrong variant, which C1 must tell apart: fail_reason is not
\* recorded)
Terminate_NoReason(st, result, reason, step) ==
  [st EXCEPT !.ctx.result = result,
             !.ctx.fail_step = step,
             !.ctx.enabled = 0]

\* (a deliberately wrong variant, which C24 must tell apart: fail_step is
\* left at the step the session began with)
Terminate_FirstStep(st, result, reason, step) ==
  [st EXCEPT !.ctx.result = result,
             !.ctx.fail_reason = reason,
             !.ctx.fail_step = VT_STEP_INIT,
             !.ctx.enabled = 0]

\* the four assignments that end a session with a failure or a timeout
Terminate(st, result, reason, step) ==
  [st EXCEPT !.ctx.result = result,
             !.ctx.fail_reason = reason,
             !.ctx.fail_step = step,
             !.ctx.enabled = 0]

ReadVoltages(st, va, vb) ==
  [st EXCEPT !.ctx.voltage_a = va, !.ctx.voltage_b = vb]

\* ++ctx->retry_count on a uint8_t
IncRetry(st) ==
  [st EXCEPT !.ctx.retry_count = (@ + 1) % UINT8_MOD]

\* (a deliberately wrong variant, which C4 must tell apart: the whole-test
\* timeout restarts the timers and the session goes on)
case_TOTAL_TIMEOUT_Restart(st) ==
  LoopRes([st EXCEPT !.ctx.total_time_ms = 0, !.ctx.step_time_ms = 0],
          VT_RUNNING)

case_TOTAL_TIMEOUT(st) ==
  LoopRes(Terminate(st, VT_TIMEOUT, VT_FAIL_TOTAL_TIMEOUT, st.ctx.current_step),
          VT_TIMEOUT)

case_INIT(st) ==
  LoopRes(HAL_set_soft_delay(
            HAL_send(enter_step(st, VT_STEP_CONFIG, VALVE_CONFIG_TIMEOUT_MS),
                     "config"),
            VALVE_CONFIG_DELAY_MS),
          VT_RUNNING)

\* (a deliberately wrong variant, which C40 must tell apart: the
\* acknowledged configuration leads to the step QueryInitial)
case_CONFIG_ToQuery(st) ==
  LET w == step_wait_response_with_retry(st, st.ctx.expected_config_code,
                                         "config", 100, 0)
  IN IF w.r = VT_STEP_SUCCESS
     THEN LoopRes(enter_step(w.st, VT_STEP_QUERY_INITIAL,
                             VALVE_INITIAL_CHECK_TIMEOUT_MS), VT_RUNNING)
     ELSE IF w.r = VT_STEP_FAIL
          THEN LoopRes(Terminate(w.st, VT_FAIL, VT_FAIL_CONFIG_RETRY,
                                 VT_STEP_CONFIG), VT_FAIL)
          ELSE LoopRes(w.st, VT_RUNNING)

case_CONFIG(st) ==
  LET w == step_wait_response_with_retry(st, st.ctx.expected_config_code,
                                         "config", 100, 0)
  IN IF w.r = VT_STEP_SUCCESS
     THEN LoopRes(enter_step(w.st, VT_STEP_CHECK_INITIAL,
                             VALVE_INITIAL_CHECK_TIMEOUT_MS), VT_RUNNING)
     ELSE IF w.r = VT_STEP_FAIL
          THEN LoopRes(Terminate(w.st, VT_FAIL, VT_FAIL_CONFIG_RETRY,
                                 VT_STEP_CONFIG), VT_FAIL)
          ELSE LoopRes(w.st, VT_RUNNING)

case_CHECK_INITIAL(st, va, vb) ==
  LET s1 == ReadVoltages(st, va, vb)
  IN IF s1.ctx.voltage_a > VALVE_VOLTAGE_LOW_THRESHOLD
        /\ s1.ctx.voltage_b < VALVE_VOLTAGE_LOW_THRESHOLD
     THEN LoopRes(HAL_set_soft_delay(
                    HAL_send(enter_step(s1, VT_STEP_SEND_OPEN,
                                        VALVE_OPEN_CMD_TIMEOUT_MS), "open"),
                    VALVE_CMD_DELAY_MS),
                  VT_RUNNING)
     ELSE LET s2 == IncRetry(s1)
          IN IF s2.ctx.retry_count > s2.ctx.retry_max
             THEN LoopRes(Terminate(s2, VT_FAIL,
                            IF s2.ctx.voltage_a >= VALVE_VOLTAGE_LOW_THRESHOLD
                            THEN VT_FAIL_INITIAL_VOLTAGE_A
                            ELSE IF s2.ctx.voltage_b >= VALVE_VOLTAGE_LOW_THRESHOLD
                                 THEN VT_FAIL_INITIAL_VOLTAGE_B
                                 ELSE VT_FAIL_INITIAL_RETRY,
                            VT_STEP_CHECK_INITIAL), VT_FAIL)
             ELSE LoopRes(enter_step(s2, VT_STEP_CONFIG,
                                     VALVE_CONFIG_TIMEOUT_MS), VT_RUNNING)

\* (a deliberately wrong variant, which C27 must tell apart: the failure of
\* the open command is recorded with the reason of the close command)
case_SEND_OPEN_CloseReason(st) ==
  LET w == step_wait_response_with_retry(st, PROTOCOL_VALVE_CONTROL,
                                         "open", 0, 0)
  IN IF w.r = VT_STEP_SUCCESS
     THEN LoopRes(enter_step(w.st, VT_STEP_DETECT_OPENING,
                             VALVE_OPEN_DETECT_TIMEOUT_MS), VT_RUNNING)
     ELSE IF w.r = VT_STEP_FAIL
          THEN IF w.st.ctx.retry_count >= w.st.ctx.retry_max
               THEN LoopRes(Terminate(w.st, VT_FAIL, VT_FAIL_CLOSE_CMD_TIMEOUT,
                                      VT_STEP_SEND_OPEN), VT_FAIL)
               ELSE LoopRes(enter_step(w.st, VT_STEP_SEND_OPEN,
                                       VALVE_OPEN_CMD_TIMEOUT_MS), VT_RUNNING)
          ELSE LoopRes(w.st, VT_RUNNING)

case_SEND_OPEN(st) ==
  LET w == step_wait_response_with_retry(st, PROTOCOL_VALVE_CONTROL,
                                         "open", 0, 0)
  IN IF w.r = VT_STEP_SUCCESS
     THEN LoopRes(enter_step(w.st, VT_STEP_DETECT_OPENING,
                             VALVE_OPEN_DETECT_TIMEOUT_MS), VT_RUNNING)
     ELSE IF w.r = VT_STEP_FAIL
          THEN IF w.st.ctx.retry_count >= w.st.ctx.retry_max
               THEN LoopRes(Terminate(w.st, VT_FAIL, VT_FAIL_OPEN_CMD_TIMEOUT,
                                      VT_STEP_SEND_OPEN), VT_FAIL)
               ELSE LoopRes(enter_step(w.st, VT_STEP_SEND_OPEN,
                                       VALVE_OPEN_CMD_TIMEOUT_MS), VT_RUNNING)
          ELSE LoopRes(w.st, VT_RUNNING)

case_DETECT_OPENING(st, va, vb) ==
  LET s1 == ReadVoltages(st, va, vb)
  IN IF s1.ctx.voltage_a > VALVE_VOLTAGE_HIGH_THRESHOLD
        /\ s1.ctx.voltage_b < VALVE_VOLTAGE_LOW_THRESHOLD
     THEN LoopRes(enter_step(s1, VT_STEP_OUTPUT_OPEN_SIGNAL, 1000), VT_RUNNING)
     ELSE IF s1.ctx.step_time_ms >= s1.ctx.step_timeout_ms
          THEN LET s2 == IncRetry(s1)
               IN IF s2.ctx.retry_count > s2.ctx.retry_max
                  THEN LoopRes(Terminate(s2, VT_TIMEOUT,
                                         VT_FAIL_OPEN_DETECT_TIMEOUT,
                                         VT_STEP_DETECT_OPENING), VT_TIMEOUT)
                  ELSE LoopRes(HAL_send(enter_step(s2, VT_STEP_SEND_OPEN,
                                                   VALVE_OPEN_CMD_TIMEOUT_MS),
                                        "open"), VT_RUNNING)
          ELSE LoopRes(s1, VT_RUNNING)

case_OUTPUT_OPEN_SIGNAL(st) ==
  LoopRes(enter_step(
            HAL_set_soft_delay(HAL_output_valve_position_signals(st, 1, 0),
                               VALVE_SIGNAL_DELAY_MS),
            VT_STEP_CHECK_OPEN_STATE, VALVE_STATE_CHECK_TIMEOUT_MS),
          VT_RUNNING)

\* (a deliberately wrong variant, which C28 must tell apart: the close
\* command is sent before the open-position output is de-asserted)
case_CHECK_OPEN_STATE_SendFirst(st, va, vb) ==
  LET s1 == ReadVoltages(st, va, vb)
  IN IF s1.ctx.voltage_a < VALVE_VOLTAGE_LOW_THRESHOLD
        /\ s1.ctx.voltage_b < VALVE_VOLTAGE_LOW_THRESHOLD
     THEN LoopRes(HAL_output_valve_position_signals(
                    enter_step(HAL_send(s1, "close"),
                               VT_STEP_SEND_CLOSE, VALVE_CLOSE_CMD_TIMEOUT_MS),
                    0, 0), VT_RUNNING)
     ELSE LET s2 == IncRetry(s1)
          IN IF s2.ctx.retry_count > s2.ctx.retry_max
             THEN LoopRes(Terminate(s2, VT_FAIL, VT_FAIL_OPEN_STATE_CHECK,
                                    VT_STEP_CHECK_OPEN_STATE), VT_FAIL)
             ELSE LoopRes(enter_step(s2, VT_STEP_OUTPUT_OPEN_SIGNAL, 10000),
                          VT_RUNNING)

case_CHECK_OPEN_STATE(st, va, vb) ==
  LET s1 == ReadVoltages(st, va, vb)
  IN IF s1.ctx.voltage_a < VALVE_VOLTAGE_LOW_THRESHOLD
        /\ s1.ctx.voltage_b < VALVE_VOLTAGE_LOW_THRESHOLD
     THEN LoopRes(HAL_send(
                    enter_step(HAL_output_valve_position_signals(s1, 0, 0),
                               VT_STEP_SEND_CLOSE, VALVE_CLOSE_CMD_TIMEOUT_MS),
                    "close"), VT_RUNNING)
     ELSE LET s2 == IncRetry(s1)
          IN IF s2.ctx.retry_count > s2.ctx.retry_max
             THEN LoopRes(Terminate(s2, VT_FAIL, VT_FAIL_OPEN_STATE_CHECK,
                                    VT_STEP_CHECK_OPEN_STATE), VT_FAIL)
             ELSE LoopRes(enter_step(s2, VT_STEP_OUTPUT_OPEN_SIGNAL, 10000),
                          VT_RUNNING)

\* (a deliberately wrong variant, which C16 must tell apart: a failure
\* re-enters the step as SendOpen does)
case_SEND_CLOSE_Reenter(st) ==
  LET w == step_wait_response_with_retry(st, PROTOCOL_VALVE_CONTROL,
                                         "close", 0, 0)
  IN IF w.r = VT_STEP_SUCCESS
     THEN LoopRes(enter_step(w.st, VT_STEP_DETECT_CLOSING,
                             VALVE_CLOSE_DETECT_TIMEOUT_MS), VT_RUNNING)
     ELSE IF w.r = VT_STEP_FAIL
          THEN IF w.st.ctx.retry_count >= w.st.ctx.retry_max
               THEN LoopRes(Terminate(w.st, VT_FAIL, VT_FAIL_CLOSE_CMD_TIMEOUT,
                                      VT_STEP_SEND_CLOSE), VT_FAIL)
               ELSE LoopRes(enter_step(w.st, VT_STEP_SEND_CLOSE,
                                       VALVE_CLOSE_CMD_TIMEOUT_MS), VT_RUNNING)
          ELSE LoopRes(w.st, VT_RUNNING)

\* (a deliberately wrong variant, which C18 must tell apart: the missing
\* acknowledgement reported as a Timeout)
case_SEND_CLOSE_AsTimeout(st) ==
  LET w == step_wait_response_with_retry(st, PROTOCOL_VALVE_CONTROL,
                                         "close", 0, 0)
  IN IF w.r = VT_STEP_SUCCESS
     THEN LoopRes(enter_step(w.st, VT_STEP_DETECT_CLOSING,
                             VALVE_CLOSE_DETECT_TIMEOUT_MS), VT_RUNNING)
     ELSE IF w.r = VT_STEP_FAIL
          THEN LoopRes(Terminate(w.st, VT_TIMEOUT, VT_FAIL_CLOSE_CMD_TIMEOUT,
                                 VT_STEP_SEND_CLOSE), VT_TIMEOUT)
          ELSE LoopRes(w.st, VT_RUNNING)

\* (a deliberately wrong variant, which C39 must tell apart: a failed wait
\* sends the close command once more and starts the step again)
case_SEND_CLOSE_SendAgain(st) ==
  LET w == step_wait_response_with_retry(st, PROTOCOL_VALVE_CONTROL,
                                         "close", 0, 0)
  IN IF w.r = VT_STEP_SUCCESS
     THEN LoopRes(enter_step(w.st, VT_STEP_DETECT_CLOSING,
                             VALVE_CLOSE_DETECT_TIMEOUT_MS), VT_RUNNING)
     ELSE IF w.r = VT_STEP_FAIL
          THEN LoopRes(HAL_send(enter_step(w.st, VT_STEP_SEND_CLOSE,
                                           VALVE_CLOSE_CMD_TIMEOUT_MS),
                                "close"), VT_RUNNING)
          ELSE LoopRes(w.st, VT_RUNNING)

case_SEND_CLOSE(st) ==
  LET w == step_wait_response_with_retry(st, PROTOCOL_VALVE_CONTROL,
                                         "close", 0, 0)
  IN IF w.r = VT_STEP_SUCCESS
     THEN LoopRes(enter_step(w.st, VT_STEP_DETECT_CLOSING,
                             VALVE_CLOSE_DETECT_TIMEOUT_MS), VT_RUNNING)
     ELSE IF w.r = VT_STEP_FAIL
          THEN LoopRes(Terminate(w.st, VT_FAIL, VT_FAIL_CLOSE_CMD_TIMEOUT,
                                 VT_STEP_SEND_CLOSE), VT_FAIL)
          ELSE LoopRes(w.st, VT_RUNNING)

\* (a deliberately wrong variant, which C3 must tell apart: voltage A and B
\* interchanged)
case_DETECT_CLOSING_Swapped(st, va, vb) ==
  LET s1 == ReadVoltages(st, va, vb)
  IN IF s1.ctx.voltage_b < VALVE_VOLTAGE_LOW_THRESHOLD
        /\ s1.ctx.voltage_a > VALVE_VOLTAGE_HIGH_THRESHOLD
     THEN LoopRes(enter_step(s1, VT_STEP_OUTPUT_CLOSE_SIGNAL, 1000), VT_RUNNING)
     ELSE IF s1.ctx.step_time_ms >= s1.ctx.step_timeout_ms
          THEN LoopRes(Terminate(s1, VT_TIMEOUT, VT_FAIL_CLOSE_DETECT_TIMEOUT,
                                 VT_STEP_DETECT_CLOSING), VT_TIMEOUT)
          ELSE LoopRes(s1, VT_RUNNING)

\* (a deliberately wrong variant, which C9 must tell apart: a timeout retry as
\* in DetectOpening)
case_DETECT_CLOSING_Retry(st, va, vb) ==
  LET s1 == ReadVoltages(st, va, vb)
  IN IF s1.ctx.voltage_a < VALVE_VOLTAGE_LOW_THRESHOLD
        /\ s1.ctx.voltage_b > VALVE_VOLTAGE_HIGH_THRESHOLD
     THEN LoopRes(enter_step(s1, VT_STEP_OUTPUT_CLOSE_SIGNAL, 1000), VT_RUNNING)
     ELSE IF s1.ctx.step_time_ms >= s1.ctx.step_timeout_ms
          THEN LET s2 == IncRetry(s1)
               IN IF s2.ctx.retry_count > s2.ctx.retry_max
                  THEN LoopRes(Terminate(s2, VT_TIMEOUT,
                                         VT_FAIL_CLOSE_DETECT_TIMEOUT,
                                         VT_STEP_DETECT_CLOSING), VT_TIMEOUT)
                  ELSE LoopRes(HAL_send(enter_step(s2, VT_STEP_SEND_CLOSE,
                                                   VALVE_CLOSE_CMD_TIMEOUT_MS),
                                        "close"), VT_RUNNING)
          ELSE LoopRes(s1, VT_RUNNING)

\* (a deliberately wrong variant, which C26 must tell apart: <= and >= in
\* place of < and >)
case_DETECT_CLOSING_Inclusive(st, va, vb) ==
  LET s1 == ReadVoltages(st, va, vb)
  IN IF s1.ctx.voltage_a <= VALVE_VOLTAGE_LOW_THRESHOLD
        /\ s1.ctx.voltage_b >= VALVE_VOLTAGE_HIGH_THRESHOLD
     THEN LoopRes(enter_step(s1, VT_STEP_OUTPUT_CLOSE_SIGNAL, 1000), VT_RUNNING)
     ELSE IF s1.ctx.step_time_ms >= s1.ctx.step_timeout_ms
          THEN LoopRes(Terminate(s1, VT_TIMEOUT, VT_FAIL_CLOSE_DETECT_TIMEOUT,
                                 VT_STEP_DETECT_CLOSING), VT_TIMEOUT)
          ELSE LoopRes(s1, VT_RUNNING)

case_DETECT_CLOSING(st, va, vb) ==
  LET s1 == ReadVoltages(st, va, vb)
  IN IF s1.ctx.voltage_a < VALVE_VOLTAGE_LOW_THRESHOLD
        /\ s1.ctx.voltage_b > VALVE_VOLTAGE_HIGH_THRESHOLD
     THEN LoopRes(enter_step(s1, VT_STEP_OUTPUT_CLOSE_SIGNAL, 1000), VT_RUNNING)
     ELSE IF s1.ctx.step_time_ms >= s1.ctx.step_timeout_ms
          THEN LoopRes(Terminate(s1, VT_TIMEOUT, VT_FAIL_CLOSE_DETECT_TIMEOUT,
                                 VT_STEP_DETECT_CLOSING), VT_TIMEOUT)
          ELSE LoopRes(s1, VT_RUNNING)

case_OUTPUT_CLOSE_SIGNAL(st) ==
  LoopRes(enter_step(
            HAL_set_soft_delay(HAL_output_valve_position_signals(st, 0, 1),
                               VALVE_SIGNAL_DELAY_MS),
            VT_STEP_CHECK_CLOSE_STATE, VALVE_STATE_CHECK_TIMEOUT_MS),
          VT_RUNNING)

\* (a deliberately wrong variant, which C5 must tell apart: the retry goes
\* back to SendClose instead of OutputCloseSignal)
case_CHECK_CLOSE_STATE_BackToSendClose(st, va, vb) ==
  LET s1 == ReadVoltages(st, va, vb)
  IN IF s1.ctx.voltage_a < VALVE_VOLTAGE_LOW_THRESHOLD
        /\ s1.ctx.voltage_b < VALVE_VOLTAGE_LOW_THRESHOLD
     THEN LoopRes(enter_step(HAL_output_valve_position_signals(s1, 0, 0),
                             VT_STEP_EVALUATE, 1000), VT_RUNNING)
     ELSE LET s2 == IncRetry(s1)
          IN IF s2.ctx.retry_count > s2.ctx.retry_max
             THEN LoopRes(Terminate(s2, VT_FAIL, VT_FAIL_CLOSE_STATE_CHECK,
                                    VT_STEP_CHECK_CLOSE_STATE), VT_FAIL)
             ELSE LoopRes(enter_step(s2, VT_STEP_SEND_CLOSE, 5000),
                          VT_RUNNING)

\* (a deliberately wrong variant, which C35 must tell apart: the final
\* check passes whatever the voltages are)
case_CHECK_CLOSE_STATE_NoCheck(st, va, vb) ==
  LET s1 == ReadVoltages(st, va, vb)
  IN LoopRes(enter_step(HAL_output_valve_position_signals(s1, 0, 0),
                        VT_STEP_EVALUATE, 1000), VT_RUNNING)

case_CHECK_CLOSE_STATE(st, va, vb) ==
  LET s1 == ReadVoltages(st, va, vb)
  IN IF s1.ctx.voltage_a < VALVE_VOLTAGE_LOW_THRESHOLD
        /\ s1.ctx.voltage_b < VALVE_VOLTAGE_LOW_THRESHOLD
     THEN LoopRes(enter_step(HAL_output_valve_position_signals(s1, 0, 0),
                             VT_STEP_EVALUATE, 1000), VT_RUNNING)
     ELSE LET s2 == IncRetry(s1)
          IN IF s2.ctx.retry_count > s2.ctx.retry_max
             THEN LoopRes(Terminate(s2, VT_FAIL, VT_FAIL_CLOSE_STATE_CHECK,
                                    VT_STEP_CHECK_CLOSE_STATE), VT_FAIL)
             ELSE LoopRes(enter_step(s2, VT_STEP_OUTPUT_CLOSE_SIGNAL, 5000),
                          VT_RUNNING)

case_EVALUATE(st) ==
  LoopRes([st EXCEPT !.ctx.result = VT_SUCCESS,
                     !.ctx.current_step = VT_STEP_DONE], VT_RUNNING)

case_DONE(st) ==
  LoopRes([st EXCEPT !.ctx.enabled = 0], st.ctx.result)

\* switch (ctx->current_step)
StepSwitch(st, va, vb) ==
  CASE st.ctx.current_step = VT_STEP_INIT -> case_INIT(st)
    [] st.ctx.current_step = VT_STEP_CONFIG -> case_CONFIG(st)
    [] st.ctx.current_step = VT_STEP_CHECK_INITIAL -> case_CHECK_INITIAL(st, va, vb)
    [] st.ctx.current_step = VT_STEP_SEND_OPEN -> case_SEND_OPEN(st)
    [] st.ctx.current_step = VT_STEP_DETECT_OPENING -> case_DETECT_OPENING(st, va, vb)
    [] st.ctx.current_step = VT_STEP_OUTPUT_OPEN_SIGNAL -> case_OUTPUT_OPEN_SIGNAL(st)
    [] st.ctx.current_step = VT_STEP_CHECK_OPEN_STATE -> case_CHECK_OPEN_STATE(st, va, vb)
    [] st.ctx.current_step = VT_STEP_SEND_CLOSE -> case_SEND_CLOSE(st)
    [] st.ctx.current_step = VT_STEP_DETECT_CLOSING -> case_DETECT_CLOSING(st, va, vb)
    [] st.ctx.current_step = VT_STEP_OUTPUT_CLOSE_SIGNAL -> case_OUTPUT_CLOSE_SIGNAL(st)
    [] st.ctx.current_step = VT_STEP_CHECK_CLOSE_STATE -> case_CHECK_CLOSE_STATE(st, va, vb)
    [] st.ctx.current_step = VT_STEP_EVALUATE -> case_EVALUATE(st)
    [] st.ctx.current_step = VT_STEP_DONE -> case_DONE(st)
    [] OTHER -> LoopRes(st, VT_RUNNING)

\* total_time_ms += tick_ms; step_time_ms += tick_ms  (uint32_t; tick_ms
\* is given as a timer value)
AddTick(st, tick_ms) ==
  [st EXCEPT !.ctx.total_time_ms = (@ + tick_ms) % UINT32_MOD,
             !.ctx.step_time_ms = (@ + tick_ms) % UINT32_MOD]

\* (a deliberately wrong variant, which C7 must tell apart: >= in place of >)
TotalExpired_Inclusive(st) == st.ctx.total_time_ms >= st.ctx.total_timeout_ms

\* if (ctx->total_time_ms > ctx->total_timeout_ms)
TotalExpired(st) == st.ctx.total_time_ms > st.ctx.total_timeout_ms

\* (a deliberately wrong variant, which C23 must tell apart: a pending delay
\* is tested before the timers are advanced)
ValveCtrl_Core_Loop_DelayFirst(st, tick_ms, va, vb) ==
  IF st.ctx.enabled = 0
  THEN LoopRes(st, VT_IDLE)
  ELSE IF ~HAL_is_soft_delay_done(st)
       THEN LoopRes(st, VT_RUNNING)
       ELSE LET s1 == AddTick(st, tick_ms)
            IN IF TotalExpired(s1)
               THEN case_TOTAL_TIMEOUT(s1)
               ELSE StepSwitch(s1, va, vb)

\* (a deliberately wrong variant, which C22 must tell apart: the timers are
\* advanced before enabled is tested)
ValveCtrl_Core_Loop_TimersFirst(st, tick_ms, va, vb) ==
  LET s1 == AddTick(st, tick_ms)
  IN IF st.ctx.enabled = 0
     THEN LoopRes(s1, VT_IDLE)
     ELSE IF TotalExpired(s1)
          THEN case_TOTAL_TIMEOUT(s1)
          ELSE IF ~HAL_is_soft_delay_done(s1)
               THEN LoopRes(s1, VT_RUNNING)
               ELSE StepSwitch(s1, va, vb)

\* (a deliberately wrong variant, which C33 must tell apart: the step logic
\* runs whether or not the requested delay is over)
ValveCtrl_Core_Loop_NoDelay(st, tick_ms, va, vb) ==
  IF st.ctx.enabled = 0
  THEN LoopRes(st, VT_IDLE)
  ELSE LET s1 == AddTick(st, tick_ms)
       IN IF TotalExpired(s1)
          THEN case_TOTAL_TIMEOUT(s1)
          ELSE StepSwitch(s1, va, vb)

\* the whole function; ctx->hal is the port's table and is never NULL
ValveCtrl_Core_Loop(st, tick_ms, va, vb) ==
  IF st.ctx.enabled = 0
  THEN LoopRes(st, VT_IDLE)
  ELSE LET s1 == AddTick(st, tick_ms)
       IN IF TotalExpired(s1)
          THEN case_TOTAL_TIMEOUT(s1)
          ELSE IF ~HAL_is_soft_delay_done(s1)
               THEN LoopRes(s1, VT_RUNNING)
               ELSE StepSwitch(s1, va, vb)

ValveCtrl_Core_Start(st, meter) ==
  [ctx |-> [st.ctx EXCEPT
              !.enabled = 1,
              !.current_step = VT_STEP_INIT,
              !.result = VT_RUNNING,
              !.total_time_ms = 0,
              !.step_time_ms = 0,
              !.retry_count = 0,
              !.response_received = 0,
              !.voltage_a = 0,
              !.voltage_b = 0,
              !.pos_open = 0,
              !.pos_close = 0,
              !.fail_reason = VT_FAIL_NONE,
              !.fail_step = VT_STEP_INIT,
              !.meter_type = HAL_get_meter_type(meter),
              !.expected_config_code = HAL_get_expected_config_code(meter)],
   hal |-> HAL_output_valve_position_signals(st, 0, 0).hal]

\* (a deliberately wrong variant, which C21 must tell apart: the outputs are
\* left as they are)
ValveCtrl_Core_Stop_KeepOutputs(st) ==
  [ctx |-> [st.ctx EXCEPT !.enabled = 0,
                          !.result = VT_IDLE,
                          !.current_step = VT_STEP_INIT],
   hal |-> st.hal]

ValveCtrl_Core_Stop(st) ==
  [ctx |-> [st.ctx EXCEPT !.enabled = 0,
                          !.result = VT_IDLE,
                          !.current_step = VT_STEP_INIT],
   hal |-> HAL_restore_gpio_to_input(st).hal]

ValveCtrl_Core_OnResponse(st, response_code) ==
  [st EXCEPT !.ctx.response_received = 1,
             !.ctx.response_code = response_code]

\* accessors
ValveCtrl_Core_GetResult(c) == c.result
ValveCtrl_Core_GetStep(c) == c.current_step
ValveCtrl_Core_GetFailReason(c) == c.fail_reason
ValveCtrl_Core_IsRunning(c) == c.enabled # 0

\* the record ValveCtrl_Core_Init leaves (memset 0, then the listed fields)
ValveCtrl_Core_Init ==
  [current_step |-> VT_STEP_INIT, result |-> VT_IDLE, enabled |-> 0,
   total_time_ms |-> 0, total_timeout_ms |-> Ms(VALVE_TOTAL_TIMEOUT_MS),
   step_time_ms |-> 0, step_timeout_ms |-> 0,
   retry_count |-> 0, retry_max |-> VALVE_MAX_RETRY_COUNT,
   voltage_a |-> 0, voltage_b |-> 0, pos_open |-> 0, pos_close |-> 0,
   response_received |-> 0, response_code |-> 0,
   fail_reason |-> VT_FAIL_NONE, fail_step |-> VT_STEP_INIT,
   meter_type |-> VALVE_METER_MECHANICAL, expected_config_code |-> 0]

(* ------------------------------------------------------------------------ *)
(* Observation of a session: what the environment supplied so far.  These   *)
(* are history values computed from the inputs and the state before a call; *)
(* the engine never reads them.                                             *)
(* ------------------------------------------------------------------------ *)

\* the order of the steps a session has to pass through
StepOrder ==
  <<VT_STEP_INIT, VT_STEP_CONFIG, VT_STEP_CHECK_INITIAL, VT_STEP_SEND_OPEN,
    VT_STEP_DETECT_OPENING, VT_STEP_OUTPUT_OPEN_SIGNAL, VT_STEP_CHECK_OPEN_STATE,
    VT_STEP_SEND_CLOSE, VT_STEP_DETECT_CLOSING, VT_STEP_OUTPUT_CLOSE_SIGNAL,
    VT_STEP_CHECK_CLOSE_STATE, VT_STEP_EVALUATE, VT_STEP_DONE>>

\* position of a step in that order (0 for the three query steps)
Pos(step) ==
  IF \E i \in 1..Len(StepOrder) : StepOrder[i] = step
  THEN CHOOSE i \in 1..Len(StepOrder) : StepOrder[i] = step
  ELSE 0

WaitSteps == {VT_STEP_CONFIG, VT_STEP_SEND_OPEN, VT_STEP_SEND_CLOSE}

\* the acknowledgement a wait step expects
ExpectedAck(c) ==
  IF c.current_step = VT_STEP_CONFIG THEN c.expected_config_code
  ELSE PROTOCOL_VALVE_CONTROL

\* the tick reaches the switch: session enabled, whole-test timeout not
\* exceeded by this tick, no soft delay pending
StepRuns(c, h, tick_ms) ==
  /\ c.enabled # 0
  /\ (c.total_time_ms + tick_ms) % UINT32_MOD <= Ms(60000)
  /\ h.soft_delay = 0

\* the step timer this tick's step logic sees
StepTimeAt(c, tick_ms) == (c.step_time_ms + tick_ms) % UINT32_MOD

\* DetectOpening runs, does not see (A > 2800, B < 100), and 5000 ms are over
OpenDetectTimesOut(c, h, tick_ms, va, vb) ==
  /\ StepRuns(c, h, tick_ms)
  /\ c.current_step = VT_STEP_DETECT_OPENING
  /\ ~(va > 2800 /\ vb < 100)
  /\ StepTimeAt(c, tick_ms) >= Ms(5000)

\* DetectClosing runs, does not see (A < 100, B > 2800), and 15000 ms are over
CloseDetectTimesOut(c, h, tick_ms, va, vb) ==
  /\ StepRuns(c, h, tick_ms)
  /\ c.current_step = VT_STEP_DETECT_CLOSING
  /\ ~(va < 100 /\ vb > 2800)
  /\ StepTimeAt(c, tick_ms) >= Ms(15000)

\* CheckInitial runs and samples a pair that is not (A > 100, B < 100)
InitialViolated(c, h, tick_ms, va, vb) ==
  /\ StepRuns(c, h, tick_ms)
  /\ c.current_step = VT_STEP_CHECK_INITIAL
  /\ ~(va > 100 /\ vb < 100)

\* the inputs of this tick are those of the happy path
TickConforms(c, h, tick_ms, va, vb) ==
  IF c.enabled = 0 THEN TRUE
  ELSE IF (c.total_time_ms + tick_ms) % UINT32_MOD > Ms(60000) THEN FALSE
  ELSE IF h.soft_delay # 0 THEN TRUE
  ELSE CASE c.current_step \in WaitSteps ->
              IF c.response_received = 1
              THEN c.response_code = ExpectedAck(c)
              ELSE /\ c.response_received = 0
                   /\ StepTimeAt(c, tick_ms) <
                        Ms(IF c.current_step = VT_STEP_CONFIG THEN 10000 ELSE 5000)
         [] c.current_step = VT_STEP_CHECK_INITIAL -> va > 100 /\ vb < 100
         [] c.current_step = VT_STEP_DETECT_OPENING ->
              (va > 2800 /\ vb < 100) \/ StepTimeAt(c, tick_ms) < Ms(5000)
         [] c.current_step = VT_STEP_CHECK_OPEN_STATE -> va < 100 /\ vb < 100
         [] c.current_step = VT_STEP_DETECT_CLOSING ->
              (va < 100 /\ vb > 2800) \/ StepTimeAt(c, tick_ms) < Ms(15000)
         [] c.current_step = VT_STEP_CHECK_CLOSE_STATE -> va < 100 /\ vb < 100
         [] OTHER -> TRUE

\* a delivered acknowledgement is the one the current wait step expects
ResponseConforms(c, code) ==
  (c.enabled # 0 /\ c.current_step \in WaitSteps) => code = ExpectedAck(c)

Bump(n) == IF n < MaxCount THEN n + 1 ELSE n

\* what the inputs of a tick amount to for the step they reach
TickEvent(c, h, tick_ms, va, vb) ==
  IF OpenDetectTimesOut(c, h, tick_ms, va, vb) THEN "open_detect_timeout"
  ELSE IF CloseDetectTimesOut(c, h, tick_ms, va, vb) THEN "close_detect_timeout"
  ELSE IF InitialViolated(c, h, tick_ms, va, vb) THEN "initial_violation"
  ELSE "none"

ObsIdle ==
  [happy |-> FALSE, path |-> <<>>, event |-> "none",
   open_detect_timeouts |-> 0, initial_violations |-> 0,
   wrap_tick |-> FALSE,
   mismatches |-> 0, cmd_timed_out |-> FALSE, state_violations |-> 0,
   only_3000 |-> TRUE, tick |-> 0, before_start |-> <<0, 0>>,
   stage |-> 0, closes |-> 0]

ObsStart ==
  [happy |-> TRUE, path |-> <<VT_STEP_INIT>>, event |-> "none",
   open_detect_timeouts |-> 0, initial_violations |-> 0,
   wrap_tick |-> FALSE,
   mismatches |-> 0, cmd_timed_out |-> FALSE, state_violations |-> 0,
   only_3000 |-> TRUE, tick |-> 0, before_start |-> <<0, 0>>,
   stage |-> 0, closes |-> 0]

ObsLoop(o, c, h, tick_ms, va, vb, c2) ==
  LET hp == o.happy /\ TickConforms(c, h, tick_ms, va, vb)
  IN [happy |-> hp,
      path |-> IF ~hp THEN <<>>
               ELSE IF c2.current_step # c.current_step
                    THEN Append(o.path, c2.current_step)
                    ELSE o.path,
      event |-> TickEvent(c, h, tick_ms, va, vb),
      open_detect_timeouts |->
        IF OpenDetectTimesOut(c, h, tick_ms, va, vb)
        THEN Bump(o.open_detect_timeouts)
        ELSE IF StepRuns(c, h, tick_ms) /\ c.current_step = VT_STEP_DETECT_OPENING
                /\ va > 2800 /\ vb < 100
             THEN 0 ELSE o.open_detect_timeouts,
      initial_violations |->
        IF InitialViolated(c, h, tick_ms, va, vb)
        THEN Bump(o.initial_violations)
        ELSE IF StepRuns(c, h, tick_ms) /\ c.current_step = VT_STEP_CHECK_INITIAL
             THEN 0 ELSE o.initial_violations,
      wrap_tick |-> o.wrap_tick \/ tick_ms > BigTick,
      mismatches |-> o.mismatches,
      cmd_timed_out |-> o.cmd_timed_out,
      state_violations |-> o.state_violations,
      only_3000 |-> o.only_3000, tick |-> o.tick,
      before_start |-> o.before_start,
      stage |-> o.stage, closes |-> o.closes]

ObsResponse(o, c, code) ==
  LET hp == o.happy /\ ResponseConforms(c, code)
  IN [o EXCEPT !.happy = hp, !.path = IF hp THEN @ ELSE <<>>,
               !.event = "none"]

(* ------------------------------------------------------------------------ *)
(* The state machine                                                        *)
(* ------------------------------------------------------------------------ *)

(* ------------------------------------------------------------------------ *)
(* retry_manager.c and the part of time_manager.c it calls.  r is the       *)
(* record of their static variables: s_rm_state, the two callback pointers  *)
(* (TRUE when a function is registered, FALSE for NULL), and of s_tm_state  *)
(* the system tick, the software delay and the start of the step timeout.   *)
(* Times are in ms.  An operator that can invoke a callback also returns    *)
(* the callbacks it invoked, in order.                                      *)
(* ------------------------------------------------------------------------ *)

RM_RESULT_RETRY_OK == 0
RM_RESULT_RETRY_EXHAUSTED == 1
RM_RESULT_NO_RETRY_CONFIG == 2

\* static variables after start-up: all zero, no callback, TM_Init done
RmBoot ==
  [retry_count |-> 0, max_retry |-> 0, retry_delay_ms |-> 0,
   waiting_retry_delay |-> FALSE,
   s_reset_callback |-> FALSE, s_retry_action_callback |-> FALSE,
   sys_tick |-> 0, delay_ms |-> 0, delay_start_tick |-> 0,
   delay_active |-> FALSE,
   step_start_tick |-> 0, step_timeout_active |-> FALSE]

\* result of a retry-manager call: the state it leaves, the value it returns
\* and the callbacks it invoked
RmRes(r, ret_val, invoked) == [r |-> r, ret |-> ret_val, calls |-> invoked]

TM_GetElapsed(r, start_tick) ==
  IF r.sys_tick >= start_tick
  THEN r.sys_tick - start_tick
  ELSE (UINT32_MOD - 1 - start_tick) + r.sys_tick + 1

TM_SetStepTimeout(r) ==
  [r EXCEPT !.step_start_tick = r.sys_tick, !.step_timeout_active = TRUE]

TM_ResetStepTimeout(r) ==
  IF r.step_timeout_active
  THEN [r EXCEPT !.step_start_tick = r.sys_tick]
  ELSE r

TM_SetDelay(r, delay_ms) ==
  [r EXCEPT !.delay_ms = delay_ms,
            !.delay_start_tick = r.sys_tick,
            !.delay_active = TRUE]

\* returns true when no delay is active, and clears an elapsed delay
TM_IsDelayComplete(r) ==
  IF ~r.delay_active
  THEN RmRes(r, TRUE, <<>>)
  ELSE IF TM_GetElapsed(r, r.delay_start_tick) >= r.delay_ms
       THEN RmRes([r EXCEPT !.delay_active = FALSE], TRUE, <<>>)
       ELSE RmRes(r, FALSE, <<>>)

TM_CancelDelay(r) == [r EXCEPT !.delay_active = FALSE]

\* memset of s_rm_state, then the four assignments
RM_Init(r, max_retry, retry_delay_ms) ==
  [r EXCEPT !.max_retry = max_retry,
            !.retry_delay_ms = retry_delay_ms,
            !.retry_count = 0,
            !.waiting_retry_delay = FALSE]

RM_SetResetCallback(r, callback) == [r EXCEPT !.s_reset_callback = callback]

RM_SetRetryActionCallback(r, callback) ==
  [r EXCEPT !.s_retry_action_callback = callback]

\* (a deliberately wrong variant, which C29 must tell apart: > in place of >=
\* in the test of the retry count)
RM_TryRetry_OneMore(r) ==
  IF r.max_retry = 0
  THEN RmRes(r, RM_RESULT_NO_RETRY_CONFIG, <<>>)
  ELSE IF r.retry_count > r.max_retry
       THEN RmRes(r, RM_RESULT_RETRY_EXHAUSTED, <<>>)
       ELSE LET r1 == [r EXCEPT !.retry_count = (@ + 1) % UINT8_MOD]
                c1 == IF r1.s_reset_callback THEN <<"reset">> ELSE <<>>
                r2 == TM_ResetStepTimeout(r1)
            IN IF r2.retry_delay_ms > 0
               THEN RmRes([TM_SetDelay(r2, r2.retry_delay_ms)
                             EXCEPT !.waiting_retry_delay = TRUE],
                          RM_RESULT_RETRY_OK, c1)
               ELSE RmRes(r2, RM_RESULT_RETRY_OK,
                          IF r2.s_retry_action_callback
                          THEN Append(c1, "action") ELSE c1)

RM_TryRetry(r) ==
  IF r.max_retry = 0
  THEN RmRes(r, RM_RESULT_NO_RETRY_CONFIG, <<>>)
  ELSE IF r.retry_count >= r.max_retry
       THEN RmRes(r, RM_RESULT_RETRY_EXHAUSTED, <<>>)
       ELSE LET r1 == [r EXCEPT !.retry_count = (@ + 1) % UINT8_MOD]
                c1 == IF r1.s_reset_callback THEN <<"reset">> ELSE <<>>
                r2 == TM_ResetStepTimeout(r1)
            IN IF r2.retry_delay_ms > 0
               THEN RmRes([TM_SetDelay(r2, r2.retry_delay_ms)
                             EXCEPT !.waiting_retry_delay = TRUE],
                          RM_RESULT_RETRY_OK, c1)
               ELSE RmRes(r2, RM_RESULT_RETRY_OK,
                          IF r2.s_retry_action_callback
                          THEN Append(c1, "action") ELSE c1)

RM_IsWaitingRetryDelay(r) == r.waiting_retry_delay

RM_CheckRetryDelayComplete(r) ==
  IF ~r.waiting_retry_delay
  THEN RmRes(r, FALSE, <<>>)
  ELSE LET d == TM_IsDelayComplete(r)
       IN IF d.ret
          THEN RmRes([d.r EXCEPT !.waiting_retry_delay = FALSE], TRUE,
                     IF r.s_retry_action_callback THEN <<"action">> ELSE <<>>)
          ELSE RmRes(d.r, FALSE, <<>>)

RM_GetRetryCount(r) == r.retry_count

RM_GetRetryRemaining(r) ==
  IF r.retry_count >= r.max_retry THEN 0 ELSE r.max_retry - r.retry_count

RM_Reset(r) ==
  [r EXCEPT !.retry_count = 0, !.waiting_retry_delay = FALSE]

RM_CancelRetryDelay(r) ==
  IF r.waiting_retry_delay
  THEN TM_CancelDelay([r EXCEPT !.waiting_retry_delay = FALSE])
  ELSE r

\* what has been observed of the calls since the last RM_Init or RM_Reset:
\* the last call, what it returned and invoked, the RM_TryRetry calls made,
\* and the granted retries whose retry action has not been invoked yet
RmHistNone ==
  [op |-> "none", result |-> RM_RESULT_NO_RETRY_CONFIG, done |-> FALSE,
   calls |-> <<>>, tries |-> 0, owed |-> 0]

\* the state a call starts from: nothing sent yet by this call
Now == [ctx |-> ctx, hal |-> [hal EXCEPT !.sent = <<>>]]

\* no call is under way
RaceIdle ==
  [pc |-> "idle", flag |-> 0, code |-> 0,
   intake |-> "idle", intake_code |-> 0,
   unseen |-> FALSE, lost |-> FALSE,
   fresh |-> TRUE, stale |-> FALSE, torn |-> FALSE]

Init ==
  /\ race = RaceIdle
  /\ rm = [s |-> RmBoot, h |-> RmHistNone]
  /\ ctx = ValveCtrl_Core_Init
  /\ hal = [soft_delay |-> 0, open_signal |-> 0, close_signal |-> 0,
            sent |-> <<>>, close_sent_asserted |-> FALSE]
  /\ last_op = "Init"
  /\ ret = VT_IDLE
  /\ obs = ObsIdle

\* the engine's part of each call; the observation is added below
StartCall(meter) ==
  LET n == ValveCtrl_Core_Start(Now, meter)
  IN /\ ctx' = n.ctx
     /\ hal' = n.hal

StopCall ==
  LET n == ValveCtrl_Core_Stop(Now)
  IN /\ ctx' = n.ctx
     /\ hal' = n.hal

OnResponseCall(code) ==
  LET n == ValveCtrl_Core_OnResponse(Now, code)
  IN /\ ctx' = n.ctx
     /\ hal' = n.hal

LoopCall(tick_ms, va, vb) ==
  LET n == ValveCtrl_Core_Loop(Now, tick_ms, va, vb)
  IN /\ ctx' = n.st.ctx
     /\ hal' = n.st.hal
     /\ ret' = n.ret

\* the steps whose case reads voltage A and voltage B
SamplingSteps ==
  {VT_STEP_CHECK_INITIAL, VT_STEP_DETECT_OPENING, VT_STEP_CHECK_OPEN_STATE,
   VT_STEP_DETECT_CLOSING, VT_STEP_CHECK_CLOSE_STATE}

\* the readings the ADC can return on this call: any pair when the call
\* reads the voltages, and a single pair, which nothing reads, when not
Readings(tick_ms) ==
  IF StepRuns(ctx, hal, tick_ms) /\ ctx.current_step \in SamplingSteps
  THEN Volts \X Volts
  ELSE {<<0, 0>>}

Start ==
  /\ \E meter \in MeterConfigs : StartCall(meter)
  /\ last_op' = "Start"
  /\ ret' = VT_IDLE
  /\ obs' = ObsStart
  /\ UNCHANGED <<race, rm>>

Stop ==
  /\ StopCall
  /\ last_op' = "Stop"
  /\ ret' = VT_IDLE
  /\ obs' = ObsIdle
  /\ UNCHANGED <<race, rm>>

OnResponse ==
  \E code \in Codes :
    /\ OnResponseCall(code)
    /\ last_op' = "OnResponse"
    /\ ret' = VT_IDLE
    /\ obs' = ObsResponse(obs, ctx, code)
    /\ UNCHANGED <<race, rm>>

Loop ==
  \E tick_ms \in Ticks :
    \E v \in Readings(tick_ms) :
      /\ LoopCall(tick_ms, v[1], v[2])
      /\ last_op' = "Loop"
      /\ obs' = ObsLoop(obs, ctx, hal, tick_ms, v[1], v[2], ctx')
      /\ UNCHANGED <<race, rm>>

\* the time base counts the requested delay down to zero
SoftDelayExpire ==
  /\ hal.soft_delay > 0
  /\ hal' = [hal EXCEPT !.soft_delay = 0, !.sent = <<>>]
  /\ last_op' = "SoftDelay"
  /\ ret' = VT_IDLE
  /\ obs' = [obs EXCEPT !.event = "none"]
  /\ UNCHANGED <<ctx, race, rm>>

Next == Start \/ Stop \/ OnResponse \/ Loop \/ SoftDelayExpire

Spec == Init /\ [][Next]_vars

(* ------------------------------------------------------------------------ *)
(* One session driven to its end: Start only on an idle engine, Stop only   *)
(* after the session has ended, and the caller keeps calling Loop with a     *)
(* tick of at least 1 ms.  Of the observation record only wrap_tick is kept. *)
(* ------------------------------------------------------------------------ *)

\* tick_ms may be any 32-bit value
LiveTicks == {Ms(0), Ms(5000), BigTick, WrapTick}

\* a reading below the low threshold and one above the high threshold
LiveVolts == {99, 3000}

LiveReadings(tick_ms) ==
  IF StepRuns(ctx, hal, tick_ms) /\ ctx.current_step \in SamplingSteps
  THEN LiveVolts \X LiveVolts
  ELSE {<<0, 0>>}

LiveStart ==
  /\ ctx.enabled = 0
  /\ \E meter \in MeterConfigs : StartCall(meter)
  /\ ret' = VT_IDLE
  /\ obs' = [obs EXCEPT !.wrap_tick = FALSE]
  /\ UNCHANGED <<last_op, race, rm>>

LiveStop ==
  /\ ctx.enabled = 0
  /\ ctx.result # VT_IDLE
  /\ StopCall
  /\ ret' = VT_IDLE
  /\ UNCHANGED <<last_op, obs, race, rm>>

LiveOnResponse ==
  /\ \E code \in Codes : OnResponseCall(code)
  /\ ret' = VT_IDLE
  /\ UNCHANGED <<last_op, obs, race, rm>>

LiveLoop(ticks) ==
  /\ \E tick_ms \in ticks :
       /\ \E v \in LiveReadings(tick_ms) : LoopCall(tick_ms, v[1], v[2])
       /\ obs' = [obs EXCEPT !.wrap_tick = @ \/ tick_ms > BigTick]
  /\ UNCHANGED <<last_op, race, rm>>

LiveSoftDelayExpire ==
  /\ hal.soft_delay > 0
  /\ hal' = [hal EXCEPT !.soft_delay = 0, !.sent = <<>>]
  /\ ret' = VT_IDLE
  /\ UNCHANGED <<ctx, last_op, obs, race, rm>>

LiveNext ==
  LiveStart \/ LiveStop \/ LiveOnResponse \/ LiveLoop(LiveTicks)
    \/ LiveSoftDelayExpire

\* the caller keeps calling Loop with tick_ms >= 1
LiveSpec ==
  Init /\ [][LiveNext]_vars /\ WF_vars(LiveLoop(LiveTicks \ {0}))

(* ------------------------------------------------------------------------ *)
(* The same calls, observed for the retry budgets: how many mismatching     *)
(* acknowledgements the current wait step has processed, whether it has     *)
(* timed out, how many state checks in a row have failed.                    *)
(* ------------------------------------------------------------------------ *)

\* a reading below the low threshold and one above the high threshold
RetryVolts == {99, 3000}

RetryReadings(tick_ms) ==
  IF StepRuns(ctx, hal, tick_ms) /\ ctx.current_step \in SamplingSteps
  THEN RetryVolts \X RetryVolts
  ELSE {<<0, 0>>}

\* the command timeout of a wait step, as enter_step is given it
CmdTimeout(c) ==
  IF c.current_step = VT_STEP_CONFIG THEN Ms(10000) ELSE Ms(5000)

\* a wait step runs and finds a new acknowledgement that is not the expected
AckMismatch(c, h, tick_ms) ==
  /\ StepRuns(c, h, tick_ms)
  /\ c.current_step \in WaitSteps
  /\ c.response_received = 1
  /\ c.response_code # ExpectedAck(c)

\* a wait step runs, finds no new acknowledgement, and its timeout is over
CmdTimesOut(c, h, tick_ms) ==
  /\ StepRuns(c, h, tick_ms)
  /\ c.current_step \in WaitSteps
  /\ c.response_received # 1
  /\ StepTimeAt(c, tick_ms) >= CmdTimeout(c)

StateCheckSteps == {VT_STEP_CHECK_OPEN_STATE, VT_STEP_CHECK_CLOSE_STATE}

\* a state check runs and samples a pair that is not (A < 100, B < 100)
StateViolated(c, h, tick_ms, va, vb) ==
  /\ StepRuns(c, h, tick_ms)
  /\ c.current_step \in StateCheckSteps
  /\ ~(va < 100 /\ vb < 100)

RetryEvent(c, h, tick_ms, va, vb) ==
  IF AckMismatch(c, h, tick_ms) THEN "mismatch"
  ELSE IF CmdTimesOut(c, h, tick_ms) THEN "cmd_timeout"
  ELSE IF StateViolated(c, h, tick_ms, va, vb) THEN "state_violation"
  ELSE IF InitialViolated(c, h, tick_ms, va, vb) THEN "initial_violation"
  ELSE "none"

RetryObsLoop(o, c, h, tick_ms, va, vb, c2) ==
  LET left == c2.current_step # c.current_step
  IN [o EXCEPT
        !.event = RetryEvent(c, h, tick_ms, va, vb),
        !.tick = tick_ms,
        !.before_start = <<0, 0>>,
        !.mismatches =
          IF left THEN 0
          ELSE IF AckMismatch(c, h, tick_ms) THEN Bump(@) ELSE @,
        !.cmd_timed_out =
          IF left THEN FALSE ELSE @ \/ CmdTimesOut(c, h, tick_ms),
        !.state_violations =
          IF StateViolated(c, h, tick_ms, va, vb) THEN Bump(@)
          ELSE IF StepRuns(c, h, tick_ms) /\ c.current_step \in StateCheckSteps
               THEN 0 ELSE @,
        !.initial_violations =
          IF InitialViolated(c, h, tick_ms, va, vb) THEN Bump(@)
          ELSE IF StepRuns(c, h, tick_ms)
                  /\ c.current_step = VT_STEP_CHECK_INITIAL
               THEN 0 ELSE @,
        !.only_3000 =
          @ /\ ((StepRuns(c, h, tick_ms)
                   /\ c.current_step = VT_STEP_CHECK_INITIAL)
                  => (va = 3000 /\ vb = 3000))]

RetryStart ==
  /\ \E meter \in MeterConfigs : StartCall(meter)
  /\ last_op' = "Start"
  /\ ret' = VT_IDLE
  /\ obs' = [ObsIdle EXCEPT !.before_start = <<ctx.voltage_a, ctx.voltage_b>>]
  /\ UNCHANGED <<race, rm>>

RetryStop ==
  /\ StopCall
  /\ last_op' = "Stop"
  /\ ret' = VT_IDLE
  /\ obs' = ObsIdle
  /\ UNCHANGED <<race, rm>>

RetryOnResponse ==
  \E code \in Codes :
    /\ OnResponseCall(code)
    /\ last_op' = "OnResponse"
    /\ ret' = VT_IDLE
    /\ obs' = [obs EXCEPT !.event = "none", !.before_start = <<0, 0>>]
    /\ UNCHANGED <<race, rm>>

RetryLoop ==
  \E tick_ms \in Ticks :
    \E v \in RetryReadings(tick_ms) :
      /\ LoopCall(tick_ms, v[1], v[2])
      /\ last_op' = "Loop"
      /\ obs' = RetryObsLoop(obs, ctx, hal, tick_ms, v[1], v[2], ctx')
      /\ UNCHANGED <<race, rm>>

RetrySoftDelayExpire ==
  /\ hal.soft_delay > 0
  /\ hal' = [hal EXCEPT !.soft_delay = 0, !.sent = <<>>]
  /\ last_op' = "SoftDelay"
  /\ ret' = VT_IDLE
  /\ obs' = [obs EXCEPT !.event = "none", !.before_start = <<0, 0>>]
  /\ UNCHANGED <<ctx, race, rm>>

RetryNext ==
  RetryStart \/ RetryStop \/ RetryOnResponse \/ RetryLoop
    \/ RetrySoftDelayExpire

RetrySpec == Init /\ [][RetryNext]_vars

(* ------------------------------------------------------------------------ *)
(* ValveCtrl_Core_OnResponse called from another execution context.  The    *)
(* response fields are plain members of the context (not volatile, no       *)
(* lock, no interrupt masking), so a Loop call that waits for an            *)
(* acknowledgement is taken here access by access to these fields:          *)
(*   begin      time accounting, the two guards, the switch                 *)
(*   read_flag  if (ctx->response_received != 1)                            *)
(*   read_code  if (ctx->response_code == expected_code)                    *)
(*   finish     the write of the flag and everything after it               *)
(* race.flag and race.code are what the call has read; race.unseen says     *)
(* that a response recorded in a wait step has not been read yet, race.lost *)
(* that the engine overwrote the flag of such a response and went on        *)
(* waiting in the same step; race.fresh says that the code in memory is the *)
(* one of the call that last set the flag, race.stale that the flag this    *)
(* Loop call read was set by a call that has not stored its code yet, and   *)
(* race.torn that the call compared such a code.                            *)
(* ------------------------------------------------------------------------ *)

\* the context as the running Loop call sees it: the flag and the code it has
\* read.  step_wait_response only tests the flag against 1, so a flag that
\* was read as "not new" is given as 2, a value the engine does not write on
\* that path
RaceView ==
  [ctx |-> [ctx EXCEPT !.response_received = race.flag,
                       !.response_code = race.code],
   hal |-> hal]

\* the rest of the call wrote response_received: step_wait_response after a
\* new flag (0 or 2), or enter_step (0)
FlagWritten(n) == race.flag = 1 \/ n.st.ctx.response_received # 2

\* begin: a call that reaches a wait step stops before its first access to
\* the response fields; any other call is over before a response can come in
RaceLoopBegin ==
  /\ race.pc = "idle"
  /\ \E tick_ms \in Ticks :
       IF StepRuns(ctx, hal, tick_ms) /\ ctx.current_step \in WaitSteps
       THEN /\ ctx' = AddTick(Now, tick_ms).ctx
            /\ hal' = Now.hal
            /\ race' = [race EXCEPT !.pc = "read_flag"]
            /\ UNCHANGED ret
       ELSE /\ \E v \in RetryReadings(tick_ms) : LoopCall(tick_ms, v[1], v[2])
            /\ race' = [race EXCEPT !.unseen = /\ @
                                               /\ ctx'.enabled # 0
                                               /\ ctx'.current_step \in WaitSteps]
  /\ UNCHANGED <<last_op, obs, rm>>

\* if (ctx->response_received != 1)
RaceReadFlag ==
  /\ race.pc = "read_flag"
  /\ race' = [race EXCEPT
                !.flag = IF ctx.response_received = 1 THEN 1 ELSE 2,
                !.stale = ctx.response_received = 1 /\ ~race.fresh,
                !.pc = IF ctx.response_received = 1 THEN "read_code"
                       ELSE "finish"]
  /\ UNCHANGED <<ctx, hal, last_op, ret, obs, rm>>

\* if (ctx->response_code == expected_code)
RaceReadCode ==
  /\ race.pc = "read_code"
  /\ race' = [race EXCEPT !.code = ctx.response_code,
                          !.unseen = FALSE,
                          !.torn = @ \/ race.stale,
                          !.pc = "finish"]
  /\ UNCHANGED <<ctx, hal, last_op, ret, obs, rm>>

\* the rest of the call, run on what it has read; the code in memory is not
\* written by the engine, and the flag only where the code above writes it
RaceFinish ==
  /\ race.pc = "finish"
  /\ LET n == StepSwitch(RaceView, 0, 0)
         w == FlagWritten(n)
         c2 == [n.st.ctx EXCEPT
                  !.response_code = ctx.response_code,
                  !.response_received = IF w THEN @ ELSE ctx.response_received]
         waiting == /\ c2.enabled # 0
                    /\ c2.current_step = ctx.current_step
     IN /\ ctx' = c2
        /\ hal' = n.st.hal
        /\ ret' = n.ret
        /\ race' = [race EXCEPT
                      !.pc = "idle", !.flag = 0, !.code = 0, !.stale = FALSE,
                      !.lost = @ \/ (race.unseen /\ w /\ waiting),
                      !.unseen = @ /\ ~w /\ waiting]
  /\ UNCHANGED <<last_op, obs, rm>>

\* the whole of ValveCtrl_Core_OnResponse, at any point of a Loop call
PreemptOnResponse ==
  /\ \E code \in Codes :
       ctx' = ValveCtrl_Core_OnResponse([ctx |-> ctx, hal |-> hal], code).ctx
  /\ race' = [race EXCEPT !.unseen = /\ ctx.enabled # 0
                                     /\ ctx.current_step \in WaitSteps]
  /\ UNCHANGED <<hal, last_op, ret, obs, rm>>

\* ctx->response_received = 1;
RaceIntakeFlag ==
  /\ race.intake = "idle"
  /\ \E code \in Codes :
       race' = [race EXCEPT !.intake = "write_code",
                            !.intake_code = code,
                            !.fresh = ctx.response_code = code]
  /\ ctx' = [ctx EXCEPT !.response_received = 1]
  /\ UNCHANGED <<hal, last_op, ret, obs, rm>>

\* ctx->response_code = response_code;
RaceIntakeCode ==
  /\ race.intake = "write_code"
  /\ ctx' = [ctx EXCEPT !.response_code = race.intake_code]
  /\ race' = [race EXCEPT !.intake = "idle", !.intake_code = 0,
                          !.fresh = TRUE, !.stale = FALSE]
  /\ UNCHANGED <<hal, last_op, ret, obs, rm>>

\* Start and Stop come from the caller of Loop, between two of its calls
RaceStart ==
  /\ ctx.enabled = 0
  /\ race.pc = "idle"
  /\ race.intake = "idle"
  /\ \E meter \in MeterConfigs : StartCall(meter)
  /\ ret' = VT_IDLE
  /\ race' = RaceIdle
  /\ UNCHANGED <<last_op, obs, rm>>

RaceStop ==
  /\ ctx.enabled # 0
  /\ race.pc = "idle"
  /\ race.intake = "idle"
  /\ StopCall
  /\ ret' = VT_IDLE
  /\ race' = RaceIdle
  /\ UNCHANGED <<last_op, obs, rm>>

RaceSoftDelayExpire ==
  /\ hal.soft_delay > 0
  /\ hal' = [hal EXCEPT !.soft_delay = 0, !.sent = <<>>]
  /\ UNCHANGED <<ctx, last_op, ret, obs, race, rm>>

\* OnResponse is an interrupt handler: it runs to its end once it has begun
PreemptNext ==
  \/ RaceStart \/ RaceStop \/ RaceSoftDelayExpire
  \/ RaceLoopBegin \/ RaceReadFlag \/ RaceReadCode \/ RaceFinish
  \/ PreemptOnResponse

PreemptSpec == Init /\ [][PreemptNext]_vars

\* OnResponse and Loop run in two contexts of which either can be scheduled
\* between two statements of the other
RaceNext ==
  \/ RaceStart \/ RaceStop \/ RaceSoftDelayExpire
  \/ RaceLoopBegin \/ RaceReadFlag \/ RaceReadCode \/ RaceFinish
  \/ RaceIntakeFlag \/ RaceIntakeCode

RaceSpec == Init /\ [][RaceNext]_vars

(* ------------------------------------------------------------------------ *)
(* The voltage comparisons at their thresholds: sessions whose samples lie  *)
(* one below, at, and one above 100 mV and 2800 mV, and whose               *)
(* acknowledgements are the expected ones.  obs.event says whether the      *)
(* call sampled the voltages.                                               *)
(* ------------------------------------------------------------------------ *)

BoundaryVolts == {99, 100, 101, 2799, 2800, 2801}

BoundaryReadings(tick_ms) ==
  IF StepRuns(ctx, hal, tick_ms) /\ ctx.current_step \in SamplingSteps
  THEN BoundaryVolts \X BoundaryVolts
  ELSE {<<0, 0>>}

BoundaryStart ==
  /\ ctx.enabled = 0
  /\ \E meter \in MeterConfigs : StartCall(meter)
  /\ last_op' = "Start"
  /\ ret' = VT_IDLE
  /\ obs' = ObsIdle
  /\ UNCHANGED <<race, rm>>

BoundaryOnResponse ==
  /\ ctx.enabled # 0
  /\ ctx.current_step \in WaitSteps
  /\ OnResponseCall(ExpectedAck(ctx))
  /\ last_op' = "OnResponse"
  /\ ret' = VT_IDLE
  /\ obs' = [obs EXCEPT !.event = "none"]
  /\ UNCHANGED <<race, rm>>

BoundaryLoop ==
  \E tick_ms \in Ticks :
    \E v \in BoundaryReadings(tick_ms) :
      /\ LoopCall(tick_ms, v[1], v[2])
      /\ last_op' = "Loop"
      /\ obs' = [obs EXCEPT
                   !.event = IF StepRuns(ctx, hal, tick_ms)
                                /\ ctx.current_step \in SamplingSteps
                             THEN "sample" ELSE "none"]
      /\ UNCHANGED <<race, rm>>

BoundarySoftDelayExpire ==
  /\ hal.soft_delay > 0
  /\ hal' = [hal EXCEPT !.soft_delay = 0, !.sent = <<>>]
  /\ last_op' = "SoftDelay"
  /\ ret' = VT_IDLE
  /\ obs' = [obs EXCEPT !.event = "none"]
  /\ UNCHANGED <<ctx, race, rm>>

BoundaryNext ==
  BoundaryStart \/ BoundaryOnResponse \/ BoundaryLoop
    \/ BoundarySoftDelayExpire

BoundarySpec == Init /\ [][BoundaryNext]_vars

(* ------------------------------------------------------------------------ *)
(* The same calls, observed for what a session has been through: how far    *)
(* the conditions of the test sequence have been met, in their order, and   *)
(* how many close commands have been sent.  The other observations are not  *)
(* kept.                                                                    *)
(* ------------------------------------------------------------------------ *)

\* the condition of the test sequence that the inputs of this tick meet:
\* 1 a matching config acknowledgement is consumed, 2 CheckInitial samples
\* (A > 100, B < 100), 3 a matching open acknowledgement is consumed,
\* 4 DetectOpening samples (A > 2800, B < 100), 5 CheckOpenState samples both
\* below 100, 6 a matching close acknowledgement is consumed, 7 DetectClosing
\* samples (A < 100, B > 2800), 8 CheckCloseState samples both below 100;
\* 0 if none
Milestone(c, h, tick_ms, va, vb) ==
  IF ~StepRuns(c, h, tick_ms) THEN 0
  ELSE CASE c.current_step = VT_STEP_CONFIG
              /\ c.response_received = 1
              /\ c.response_code = c.expected_config_code -> 1
         [] c.current_step = VT_STEP_CHECK_INITIAL
              /\ va > 100 /\ vb < 100 -> 2
         [] c.current_step = VT_STEP_SEND_OPEN
              /\ c.response_received = 1
              /\ c.response_code = PROTOCOL_VALVE_CONTROL -> 3
         [] c.current_step = VT_STEP_DETECT_OPENING
              /\ va > 2800 /\ vb < 100 -> 4
         [] c.current_step = VT_STEP_CHECK_OPEN_STATE
              /\ va < 100 /\ vb < 100 -> 5
         [] c.current_step = VT_STEP_SEND_CLOSE
              /\ c.response_received = 1
              /\ c.response_code = PROTOCOL_VALVE_CONTROL -> 6
         [] c.current_step = VT_STEP_DETECT_CLOSING
              /\ va < 100 /\ vb > 2800 -> 7
         [] c.current_step = VT_STEP_CHECK_CLOSE_STATE
              /\ va < 100 /\ vb < 100 -> 8
         [] OTHER -> 0

\* the count of close commands is followed up to one more than a session
\* may send
CloseCap == VALVE_MAX_RETRY_COUNT + 2

\* the close commands among the commands a call has sent
Closes(sent) == Cardinality({i \in 1..Len(sent) : sent[i] = "close"})

SessionStart ==
  /\ \E meter \in MeterConfigs : StartCall(meter)
  /\ last_op' = "Start"
  /\ ret' = VT_IDLE
  /\ obs' = ObsIdle
  /\ UNCHANGED <<race, rm>>

SessionStop ==
  /\ StopCall
  /\ last_op' = "Stop"
  /\ ret' = VT_IDLE
  /\ obs' = ObsIdle
  /\ UNCHANGED <<race, rm>>

SessionOnResponse ==
  \E code \in Codes :
    /\ OnResponseCall(code)
    /\ last_op' = "OnResponse"
    /\ ret' = VT_IDLE
    /\ UNCHANGED <<obs, race, rm>>

SessionLoop ==
  \E tick_ms \in Ticks :
    \E v \in RetryReadings(tick_ms) :
      /\ LoopCall(tick_ms, v[1], v[2])
      /\ last_op' = "Loop"
      /\ obs' = [obs EXCEPT
                   !.stage =
                     IF Milestone(ctx, hal, tick_ms, v[1], v[2]) = @ + 1
                     THEN @ + 1 ELSE @,
                   !.closes =
                     IF @ + Closes(hal'.sent) > CloseCap
                     THEN CloseCap ELSE @ + Closes(hal'.sent)]
      /\ UNCHANGED <<race, rm>>

SessionSoftDelayExpire ==
  /\ hal.soft_delay > 0
  /\ hal' = [hal EXCEPT !.soft_delay = 0, !.sent = <<>>]
  /\ last_op' = "SoftDelay"
  /\ ret' = VT_IDLE
  /\ UNCHANGED <<ctx, obs, race, rm>>

SessionNext ==
  SessionStart \/ SessionStop \/ SessionOnResponse \/ SessionLoop
    \/ SessionSoftDelayExpire

SessionSpec == Init /\ [][SessionNext]_vars

(* ------------------------------------------------------------------------ *)
(* The retry manager under any order of its calls.  A step of a test        *)
(* registers the callbacks, calls RM_Init on entry, RM_TryRetry on a        *)
(* timeout or a failed check, and polls RM_CheckRetryDelayComplete; the     *)
(* 1 ms interrupt advances the system tick.                                 *)
(* ------------------------------------------------------------------------ *)

\* largest max_retry given to RM_Init
MaxRetry == 2

\* the system tick is followed up to this value
MaxTick == 3

\* retry_delay_ms given to RM_Init: no delay, or a delay of 2 ms
RmDelays == {0, 2}

valve_vars == <<ctx, hal, last_op, ret, obs, race>>

RmInitCall ==
  /\ \E max_retry \in 0..MaxRetry :
       \E retry_delay_ms \in RmDelays :
         rm' = [s |-> RM_Init(rm.s, max_retry, retry_delay_ms),
                h |-> [RmHistNone EXCEPT !.op = "RM_Init"]]
  /\ UNCHANGED valve_vars

RmSetResetCallback ==
  /\ rm' = [s |-> RM_SetResetCallback(rm.s, TRUE),
            h |-> [rm.h EXCEPT !.op = "RM_SetResetCallback", !.calls = <<>>]]
  /\ UNCHANGED valve_vars

RmSetRetryActionCallback ==
  /\ rm' = [s |-> RM_SetRetryActionCallback(rm.s, TRUE),
            h |-> [rm.h EXCEPT !.op = "RM_SetRetryActionCallback",
                               !.calls = <<>>]]
  /\ UNCHANGED valve_vars

RmSetStepTimeout ==
  /\ rm' = [s |-> TM_SetStepTimeout(rm.s),
            h |-> [rm.h EXCEPT !.op = "TM_SetStepTimeout", !.calls = <<>>]]
  /\ UNCHANGED valve_vars

RmTryRetry ==
  /\ rm.h.tries < MaxRetry + 2
  /\ LET n == RM_TryRetry(rm.s)
     IN rm' = [s |-> n.r,
               h |-> [rm.h EXCEPT
                        !.op = "RM_TryRetry",
                        !.result = n.ret,
                        !.calls = n.calls,
                        !.tries = @ + 1,
                        !.owed = IF /\ n.ret = RM_RESULT_RETRY_OK
                                    /\ n.r.waiting_retry_delay
                                    /\ n.r.s_retry_action_callback
                                 THEN @ + 1 ELSE @]]
  /\ UNCHANGED valve_vars

RmCheckRetryDelayComplete ==
  /\ LET n == RM_CheckRetryDelayComplete(rm.s)
     IN rm' = [s |-> n.r,
               h |-> [rm.h EXCEPT
                        !.op = "RM_CheckRetryDelayComplete",
                        !.done = n.ret,
                        !.calls = n.calls,
                        !.owed = IF n.calls = <<"action">> /\ @ > 0
                                 THEN @ - 1 ELSE @]]
  /\ UNCHANGED valve_vars

RmReset ==
  /\ rm' = [s |-> RM_Reset(rm.s),
            h |-> [RmHistNone EXCEPT !.op = "RM_Reset"]]
  /\ UNCHANGED valve_vars

RmCancelRetryDelay ==
  /\ rm' = [s |-> RM_CancelRetryDelay(rm.s),
            h |-> [rm.h EXCEPT !.op = "RM_CancelRetryDelay",
                               !.calls = <<>>, !.owed = 0]]
  /\ UNCHANGED valve_vars

\* TM_SysTick_Handler: sys_tick++
RmSysTick ==
  /\ rm.s.sys_tick < MaxTick
  /\ rm' = [s |-> [rm.s EXCEPT !.sys_tick = @ + 1],
            h |-> [rm.h EXCEPT !.op = "TM_SysTick_Handler", !.calls = <<>>]]
  /\ UNCHANGED valve_vars

RmNext ==
  \/ RmInitCall \/ RmSetResetCallback \/ RmSetRetryActionCallback
  \/ RmSetStepTimeout \/ RmTryRetry \/ RmCheckRetryDelayComplete
  \/ RmReset \/ RmCancelRetryDelay \/ RmSysTick

RmSpec == Init /\ [][RmNext]_vars

(* ------------------------------------------------------------------------ *)
(* Properties                                                               *)
(* ------------------------------------------------------------------------ *)

\* the session's result is Success, Timeout or Fail
Terminal(c) == c.result \in {VT_SUCCESS, VT_TIMEOUT, VT_FAIL}

\* C1: a session whose result is terminal has fail_reason NoFailure if and
\* only if its result is Success; Timeout and Fail always carry a reason.
C1_TerminalReason ==
  Terminal(ctx) =>
    /\ Cardinality({r \in {VT_SUCCESS, VT_TIMEOUT, VT_FAIL} : ctx.result = r}) = 1
    /\ (ctx.fail_reason = VT_FAIL_NONE) <=> (ctx.result = VT_SUCCESS)

\* C1 witness: a session ended by a failure, with its reason recorded
C1_Witness ==
  /\ last_op = "Loop"
  /\ ctx.result = VT_FAIL
  /\ ctx.fail_reason = VT_FAIL_CLOSE_CMD_TIMEOUT

\* C2 (as the specification states it): once the result is Success, Timeout or
\* Fail, no Loop tick and no OnResponse call changes it.
C2_TerminalResultStable ==
  [][(Terminal(ctx) /\ last_op' \in {"Loop", "OnResponse"})
       => ctx'.result = ctx.result]_vars

C4_Terminates ==
  (ctx.enabled # 0) ~> (ctx.enabled = 0 /\ Terminal(ctx))

\* C4 (restricted to ticks that cannot wrap): the same holds as long as no
\* tick_ms is so large that the 32-bit timers can wrap (every tick_ms <= 2^32
\* - 1 - 60000): a started session eventually is terminal, or has been given
\* such a tick.
C4_TerminatesNoWrap ==
  (ctx.enabled # 0 /\ ~obs.wrap_tick)
    ~> ((ctx.enabled = 0 /\ Terminal(ctx)) \/ obs.wrap_tick)

\* C4 witness: a session ended by the whole-test timeout while a soft delay
\* was still pending
C4_Witness ==
  /\ ctx.enabled = 0
  /\ ctx.fail_reason = VT_FAIL_TOTAL_TIMEOUT
  /\ hal.soft_delay # 0
  /\ ~obs.wrap_tick

\* the backward transitions of current_step the engine makes on a retry
RetryTransitions ==
  {<<VT_STEP_CHECK_INITIAL, VT_STEP_CONFIG>>,
   <<VT_STEP_DETECT_OPENING, VT_STEP_SEND_OPEN>>,
   <<VT_STEP_CHECK_OPEN_STATE, VT_STEP_OUTPUT_OPEN_SIGNAL>>,
   <<VT_STEP_CHECK_CLOSE_STATE, VT_STEP_OUTPUT_CLOSE_SIGNAL>>}

C6_LoopReturnsResult ==
  last_op = "Loop" => ret = ValveCtrl_Core_GetResult(ctx)

\* C7: a tick that brings total_elapsed above 60000 ms on an enabled session
\* ends it with Timeout / TotalTimeout / fail_step = the active step and does
\* nothing else (the step's case is not run, no command is sent, a pending
\* soft delay stays pending); a tick that leaves it at or below 60000 ms
\* never produces TotalTimeout.
C7_TotalTimeout ==
  [][(last_op' = "Loop" /\ ctx.enabled # 0) =>
       IF ctx'.total_time_ms > Ms(60000)
       THEN /\ ret' = VT_TIMEOUT
            /\ ctx' = [ctx EXCEPT !.total_time_ms = ctx'.total_time_ms,
                                  !.step_time_ms = ctx'.step_time_ms,
                                  !.result = VT_TIMEOUT,
                                  !.fail_reason = VT_FAIL_TOTAL_TIMEOUT,
                                  !.fail_step = ctx.current_step,
                                  !.enabled = 0]
            /\ hal' = [hal EXCEPT !.sent = <<>>]
       ELSE ctx'.fail_reason # VT_FAIL_TOTAL_TIMEOUT]_vars

\* C7 witness: the whole-test timeout has ended a session in CheckOpenState
\* while the settle delay was still pending
C7_Witness ==
  /\ last_op = "Loop"
  /\ ctx.result = VT_TIMEOUT
  /\ ctx.fail_reason = VT_FAIL_TOTAL_TIMEOUT
  /\ ctx.fail_step = VT_STEP_CHECK_OPEN_STATE
  /\ hal.soft_delay # 0

\* C8 (as the specification states it): each of the first 3 DetectOpening
\* timeouts of a session re-sends the open command and returns to SendOpen,
\* and the 4th ends the session with Timeout / OpenDetectTimeout / fail_step
\* DetectOpening.
C8_OpenDetectRetryBudget ==
  [][(last_op' = "Loop" /\ obs'.event = "open_detect_timeout") =>
       IF obs'.open_detect_timeouts <= 3
       THEN /\ ctx'.enabled # 0
            /\ ctx'.current_step = VT_STEP_SEND_OPEN
            /\ hal'.sent = <<"open">>
       ELSE /\ ctx'.enabled = 0
            /\ ctx'.result = VT_TIMEOUT
            /\ ctx'.fail_reason = VT_FAIL_OPEN_DETECT_TIMEOUT
            /\ ctx'.fail_step = VT_STEP_DETECT_OPENING]_vars

\* C9: a DetectClosing tick that finds the 15000 ms step timeout over without
\* (A < 100, B > 2800) ends the session with Timeout / CloseDetectTimeout;
\* no tick of DetectClosing sends the close command again or re-enters an
\* earlier step.
C9_CloseDetectNoRetry ==
  [][(last_op' = "Loop" /\ ctx.enabled # 0
        /\ ctx.current_step = VT_STEP_DETECT_CLOSING) =>
       /\ hal'.sent = <<>>
       /\ ctx'.current_step \in {VT_STEP_DETECT_CLOSING,
                                 VT_STEP_OUTPUT_CLOSE_SIGNAL}
       /\ obs'.event = "close_detect_timeout" =>
            /\ ret' = VT_TIMEOUT
            /\ ctx'.enabled = 0
            /\ ctx'.result = VT_TIMEOUT
            /\ ctx'.fail_reason = VT_FAIL_CLOSE_DETECT_TIMEOUT
            /\ ctx'.fail_step = VT_STEP_DETECT_CLOSING
            /\ ctx'.current_step = VT_STEP_DETECT_CLOSING]_vars

\* C9 witness: the DetectClosing step timeout has just ended a session
C9_Witness ==
  /\ last_op = "Loop"
  /\ obs.event = "close_detect_timeout"
  /\ ctx.fail_reason = VT_FAIL_CLOSE_DETECT_TIMEOUT
  /\ ctx.step_time_ms >= Ms(15000)

\* C10 (as the specification states it): each of the first 3 consecutive
\* CheckInitial violations is retried, and the 4th ends the session with Fail,
\* fail_step CheckInitial and one of the three initial-state reasons.
C10_InitialRetryBudget ==
  [][(last_op' = "Loop" /\ obs'.event = "initial_violation") =>
       IF obs'.initial_violations <= 3
       THEN ctx'.enabled # 0 /\ ctx'.result = VT_RUNNING
       ELSE /\ ctx'.enabled = 0
            /\ ctx'.result = VT_FAIL
            /\ ctx'.fail_step = VT_STEP_CHECK_INITIAL
            /\ ctx'.fail_reason \in {VT_FAIL_INITIAL_VOLTAGE_A,
                                    VT_FAIL_INITIAL_VOLTAGE_B,
                                    VT_FAIL_INITIAL_RETRY}]_vars

\* a Loop call has just ended the session with this result, reason and step
EndedWith(result, reason, step) ==
  /\ ret' = result
  /\ ctx'.enabled = 0
  /\ ctx'.result = result
  /\ ctx'.fail_reason = reason
  /\ ctx'.fail_step = step

\* C11 (as the specification states it): with (3000, 3000) on every
\* CheckInitial sample of the session, the 4th sample (after 3 retries) ends
\* the session with Fail / InitialVoltageB.
C11_Stuck3000EndsWithB ==
  [][(last_op' = "Loop" /\ obs'.event = "initial_violation"
        /\ obs'.only_3000 /\ obs'.initial_violations = 4) =>
       (ctx'.enabled = 0 /\ ctx'.result = VT_FAIL
          /\ ctx'.fail_reason = VT_FAIL_INITIAL_VOLTAGE_B)]_vars

\* C12 (as the specification states it): in SendOpen each of the first 3
\* mismatching acknowledgements in a row re-sends the open command and the
\* session goes on; the 4th ends it with Fail / OpenCmdTimeout / SendOpen.
C12_SendOpenMismatchBudget ==
  [][(last_op' = "Loop" /\ obs'.event = "mismatch"
        /\ ctx.current_step = VT_STEP_SEND_OPEN /\ ~obs.cmd_timed_out) =>
       IF obs'.mismatches <= 3
       THEN /\ ctx'.enabled # 0
            /\ ctx'.result = VT_RUNNING
            /\ hal'.sent = <<"open">>
       ELSE EndedWith(VT_FAIL, VT_FAIL_OPEN_CMD_TIMEOUT,
                      VT_STEP_SEND_OPEN)]_vars

\* C13 (as the specification states it): a SendOpen tick that finds the
\* 5000 ms step timeout over, with no acknowledgement delivered since the
\* command was sent and no retry consumed, ends the session with
\* Fail / OpenCmdTimeout.
C13_SendOpenTimeoutFails ==
  [][(last_op' = "Loop" /\ obs'.event = "cmd_timeout"
        /\ ctx.current_step = VT_STEP_SEND_OPEN
        /\ ctx.response_received = 0
        /\ obs.mismatches = 0 /\ ~obs.cmd_timed_out) =>
       (ctx'.enabled = 0 /\ ctx'.result = VT_FAIL
          /\ ctx'.fail_reason = VT_FAIL_OPEN_CMD_TIMEOUT)]_vars

\* C14: in Config each of the first 3 mismatching acknowledgements re-sends
\* the configuration command exactly once and the session goes on in Config;
\* the 4th in a row ends it with Fail / ConfigRetryExhausted / Config and
\* sends nothing.
C14_ConfigMismatchBudget ==
  [][(last_op' = "Loop" /\ obs'.event = "mismatch"
        /\ ctx.current_step = VT_STEP_CONFIG) =>
       IF obs'.mismatches <= 3
       THEN /\ ret' = VT_RUNNING
            /\ ctx'.enabled # 0
            /\ ctx'.result = VT_RUNNING
            /\ ctx'.current_step = VT_STEP_CONFIG
            /\ hal'.sent = <<"config">>
       ELSE /\ EndedWith(VT_FAIL, VT_FAIL_CONFIG_RETRY, VT_STEP_CONFIG)
            /\ hal'.sent = <<>>]_vars

\* C14 witness: the 4th mismatching acknowledgement has just ended a session
\* in Config
C14_Witness ==
  /\ last_op = "Loop"
  /\ obs.event = "mismatch"
  /\ obs.mismatches = 4
  /\ ctx.enabled = 0
  /\ ctx.fail_reason = VT_FAIL_CONFIG_RETRY
  /\ ctx.fail_step = VT_STEP_CONFIG

\* C15 (as the specification states it): a Config tick that finds the
\* 10000 ms step timeout over, with no acknowledgement delivered and no
\* resend performed, ends the session with reason ConfigTimeout.
C15_ConfigTimeoutReason ==
  [][(last_op' = "Loop" /\ obs'.event = "cmd_timeout"
        /\ ctx.current_step = VT_STEP_CONFIG
        /\ ctx.response_received = 0 /\ obs.mismatches = 0) =>
       (ctx'.enabled = 0
          /\ ctx'.fail_reason = VT_FAIL_CONFIG_TIMEOUT)]_vars

\* C16: in SendClose each of the first 3 mismatching acknowledgements
\* re-sends the close command and the session goes on in SendClose; the 4th
\* mismatch, and likewise the 5000 ms step timeout found without a new
\* acknowledgement, ends it at once with Fail / CloseCmdTimeout / SendClose;
\* no tick re-enters SendClose (the step timer is never restarted there).
C16_SendCloseBudget ==
  [][(last_op' = "Loop" /\ ctx.enabled # 0
        /\ ctx.current_step = VT_STEP_SEND_CLOSE) =>
       /\ ctx'.current_step \in {VT_STEP_SEND_CLOSE, VT_STEP_DETECT_CLOSING}
       /\ ctx'.current_step = VT_STEP_SEND_CLOSE =>
            ctx'.step_time_ms = StepTimeAt(ctx, ctx'.total_time_ms
                                                  - ctx.total_time_ms)
       /\ obs'.event = "mismatch" =>
            IF obs'.mismatches <= 3
            THEN /\ ret' = VT_RUNNING
                 /\ ctx'.enabled # 0
                 /\ ctx'.result = VT_RUNNING
                 /\ ctx'.current_step = VT_STEP_SEND_CLOSE
                 /\ hal'.sent = <<"close">>
            ELSE /\ EndedWith(VT_FAIL, VT_FAIL_CLOSE_CMD_TIMEOUT,
                              VT_STEP_SEND_CLOSE)
                 /\ hal'.sent = <<>>
       /\ obs'.event = "cmd_timeout" =>
            /\ EndedWith(VT_FAIL, VT_FAIL_CLOSE_CMD_TIMEOUT,
                         VT_STEP_SEND_CLOSE)
            /\ hal'.sent = <<>>]_vars

\* C16 witness: the 4th mismatching acknowledgement has just ended a session
\* in SendClose
C16_Witness ==
  /\ last_op = "Loop"
  /\ obs.event = "mismatch"
  /\ obs.mismatches = 4
  /\ ctx.enabled = 0
  /\ ctx.fail_reason = VT_FAIL_CLOSE_CMD_TIMEOUT
  /\ ctx.fail_step = VT_STEP_SEND_CLOSE

\* C17 (as the specification states it): each of the first 3 failed state
\* checks in a row goes back to the preceding output step; the 4th ends the
\* session with Fail / OpenStateCheck, respectively CloseStateCheck.
C17_StateCheckBudget ==
  [][(last_op' = "Loop" /\ obs'.event = "state_violation") =>
       IF obs'.state_violations <= 3
       THEN /\ ctx'.enabled # 0
            /\ ctx'.current_step =
                 (IF ctx.current_step = VT_STEP_CHECK_OPEN_STATE
                  THEN VT_STEP_OUTPUT_OPEN_SIGNAL
                  ELSE VT_STEP_OUTPUT_CLOSE_SIGNAL)
       ELSE /\ ctx'.enabled = 0
            /\ ctx'.result = VT_FAIL
            /\ ctx'.fail_reason =
                 (IF ctx.current_step = VT_STEP_CHECK_OPEN_STATE
                  THEN VT_FAIL_OPEN_STATE_CHECK
                  ELSE VT_FAIL_CLOSE_STATE_CHECK)]_vars

TimeoutReasons ==
  {VT_FAIL_OPEN_DETECT_TIMEOUT, VT_FAIL_CLOSE_DETECT_TIMEOUT,
   VT_FAIL_TOTAL_TIMEOUT}

\* C18: a session that has ended without Success has result Timeout exactly
\* when its fail_reason is OpenDetectTimeout, CloseDetectTimeout or
\* TotalTimeout, and result Fail for every other reason.
C18_TimeoutVsFail ==
  (Terminal(ctx) /\ ctx.result # VT_SUCCESS) =>
    /\ (ctx.result = VT_TIMEOUT) <=> (ctx.fail_reason \in TimeoutReasons)
    /\ (ctx.result = VT_FAIL) <=> (ctx.fail_reason \notin TimeoutReasons)

\* C18 witness: a session ended by the whole-test timeout while it was
\* waiting for the acknowledgement of the close command
C18_Witness ==
  /\ ctx.enabled = 0
  /\ ctx.result = VT_TIMEOUT
  /\ ctx.fail_reason = VT_FAIL_TOTAL_TIMEOUT
  /\ ctx.fail_step = VT_STEP_SEND_CLOSE

\* C19 (as the specification states it): with OnResponse able to preempt
\* Loop between two of its statements, the engine never overwrites the flag
\* of a response that was recorded in Config, SendOpen or SendClose and that
\* it has not read, and then goes on waiting in that step
C19_NoLostResponse == ~race.lost

\* C20 (as the specification states it): under any interleaving of one
\* OnResponse caller with Loop, a Loop call that reads the flag as new never
\* compares a code older than the call that set this flag
C20_NoTornRead == ~race.torn

\* C21: Stop, in any state and at any step, leaves enabled false and both
\* position outputs inactive; while enabled is false a Loop tick changes
\* nothing of the session, sends no command and drives no output; and only
\* Start makes enabled true again.
C21_StopCancels ==
  [][/\ last_op' = "Stop" =>
          /\ ctx'.enabled = 0
          /\ hal'.open_signal = 0
          /\ hal'.close_signal = 0
     /\ (ctx.enabled = 0 /\ last_op' = "Loop") =>
          /\ ctx' = ctx
          /\ hal'.sent = <<>>
          /\ hal'.open_signal = hal.open_signal
          /\ hal'.close_signal = hal.close_signal
     /\ (ctx.enabled = 0 /\ ctx'.enabled # 0) => last_op' = "Start"]_vars

\* C21 witness: a session was stopped in DetectClosing and a tick was given
\* afterwards
C21_Witness ==
  /\ last_op = "Loop"
  /\ ctx.enabled = 0
  /\ ctx.result = VT_IDLE
  /\ ctx.step_timeout_ms = Ms(VALVE_CLOSE_DETECT_TIMEOUT_MS)
  /\ hal.open_signal = 0
  /\ hal.close_signal = 0

\* C22: when enabled is false a Loop call returns VT_IDLE, leaves every field
\* of the session record as it was, the two timers included, and uses no
\* capability: nothing is sent, no delay is requested, no output is driven.
C22_DisabledLoopIsNoOp ==
  [][(ctx.enabled = 0 /\ last_op' = "Loop") =>
       /\ ctx' = ctx
       /\ hal' = [hal EXCEPT !.sent = <<>>]
       /\ ret' = VT_IDLE]_vars

\* C22 witness: a tick was given to a session that the timeout of
\* DetectClosing had ended
C22_Witness ==
  /\ last_op = "Loop"
  /\ ret = VT_IDLE
  /\ ctx.enabled = 0
  /\ ctx.result = VT_TIMEOUT
  /\ ctx.fail_reason = VT_FAIL_CLOSE_DETECT_TIMEOUT

\* C23: every Loop call on an enabled session adds its tick_ms to the
\* whole-test timer and to the step timer.  The whole-test timer after the
\* call is always the sum; the step timer is the sum unless the step logic
\* ran and entered a step, which restarts it; on a call that finds the soft
\* delay pending nothing but the two timers changes, so both timeouts are
\* counted through delays.
C23_TimersCountThroughDelay ==
  [][(last_op' = "Loop" /\ ctx.enabled # 0) =>
       LET tick_ms == obs'.tick
       IN /\ ctx'.total_time_ms = (ctx.total_time_ms + tick_ms) % UINT32_MOD
          /\ \/ ctx'.step_time_ms = (ctx.step_time_ms + tick_ms) % UINT32_MOD
             \/ /\ StepRuns(ctx, hal, tick_ms)
                /\ ctx'.step_time_ms = 0
          /\ (hal.soft_delay # 0 /\ ctx'.enabled # 0) =>
               /\ ctx' = [ctx EXCEPT !.total_time_ms = ctx'.total_time_ms,
                                     !.step_time_ms = ctx'.step_time_ms]
               /\ ctx'.step_time_ms = (ctx.step_time_ms + tick_ms) % UINT32_MOD
               /\ hal' = [hal EXCEPT !.sent = <<>>]
               /\ ret' = VT_RUNNING]_vars

\* C23 witness: the step timer of Config has reached the step timeout while
\* the delay requested after the config command is still pending
C23_Witness ==
  /\ last_op = "Loop"
  /\ ctx.enabled # 0
  /\ ctx.current_step = VT_STEP_CONFIG
  /\ hal.soft_delay # 0
  /\ ctx.step_time_ms >= ctx.step_timeout_ms
  /\ ctx.total_time_ms >= Ms(VALVE_CONFIG_TIMEOUT_MS)

Failed(c) == c.result \in {VT_FAIL, VT_TIMEOUT}

\* C24: between a Start and the next Start, fail_reason and fail_step change
\* only in a Loop tick on an enabled session that makes the result Fail or
\* Timeout, only if no reason has been recorded before, and fail_step is then
\* the step that was active when the tick began; and every tick that makes
\* the result Fail or Timeout records both.
C24_FailRecordWriteOnce ==
  [][(last_op' # "Start") =>
       /\ (ctx'.fail_reason # ctx.fail_reason
             \/ ctx'.fail_step # ctx.fail_step) =>
            /\ last_op' = "Loop"
            /\ ctx.enabled # 0
            /\ ctx.fail_reason = VT_FAIL_NONE
            /\ ~Failed(ctx) /\ Failed(ctx')
       /\ (~Failed(ctx) /\ Failed(ctx')) =>
            /\ ctx'.fail_reason # VT_FAIL_NONE
            /\ ctx'.fail_step = ctx.current_step]_vars

\* C24 witness: a session that failed in SendClose has since been given an
\* acknowledgement, and its record still names SendClose
C24_Witness ==
  /\ last_op = "OnResponse"
  /\ ctx.enabled = 0
  /\ ctx.result = VT_FAIL
  /\ ctx.fail_reason = VT_FAIL_CLOSE_CMD_TIMEOUT
  /\ ctx.fail_step = VT_STEP_SEND_CLOSE
  /\ ctx.response_received = 1

\* C25 (as the specification states it): a Stop that follows a Start with no
\* call in between leaves result Idle, enabled false, step Init, and
\* voltage_a and voltage_b with the values they had before that Start
\* (obs.before_start), whatever the record held.
C25_StartStopRoundTrip ==
  [][(last_op = "Start" /\ last_op' = "Stop") =>
       /\ ctx'.result = VT_IDLE
       /\ ctx'.enabled = 0
       /\ ctx'.current_step = VT_STEP_INIT
       /\ ctx'.voltage_a = obs.before_start[1]
       /\ ctx'.voltage_b = obs.before_start[2]]_vars

\* a sample is low below 100 mV and high above 2800 mV, both strictly
Low(v) == v < 100
High(v) == v > 2800

\* C26: on every call that samples the voltages, the sample (kept in
\* voltage_a, voltage_b) decides with strict comparisons: DetectOpening goes
\* on to OutputOpenSignal exactly when A is high and B is low, DetectClosing
\* to OutputCloseSignal exactly when A is low and B is high, CheckOpenState
\* to SendClose and CheckCloseState to Evaluate exactly when both are low;
\* so 100 is never taken as low nor 2800 as high, and 99 and 2801 are.
C26_StrictThresholds ==
  [][(last_op' = "Loop" /\ obs'.event = "sample") =>
       LET a == ctx'.voltage_a
           b == ctx'.voltage_b
           to(step) == ctx'.current_step = step
       IN CASE ctx.current_step = VT_STEP_DETECT_OPENING ->
                 to(VT_STEP_OUTPUT_OPEN_SIGNAL) <=> (High(a) /\ Low(b))
            [] ctx.current_step = VT_STEP_DETECT_CLOSING ->
                 to(VT_STEP_OUTPUT_CLOSE_SIGNAL) <=> (Low(a) /\ High(b))
            [] ctx.current_step = VT_STEP_CHECK_OPEN_STATE ->
                 to(VT_STEP_SEND_CLOSE) <=> (Low(a) /\ Low(b))
            [] ctx.current_step = VT_STEP_CHECK_CLOSE_STATE ->
                 to(VT_STEP_EVALUATE) <=> (Low(a) /\ Low(b))
            [] OTHER -> TRUE]_vars

\* C26 witness: DetectClosing has sampled A = 100 at the end of its 15000 ms
\* and the session has ended with CloseDetectTimeout, B being high
C26_Witness ==
  /\ last_op = "Loop"
  /\ obs.event = "sample"
  /\ ctx.fail_reason = VT_FAIL_CLOSE_DETECT_TIMEOUT
  /\ ctx.voltage_a = 100
  /\ ctx.voltage_b = 2801

\* the step at which each reason is declared (the whole-test timeout, which
\* can strike at any step, and NoFailure excepted)
DeclaringStep(reason) ==
  CASE reason = VT_FAIL_CONFIG_RETRY -> VT_STEP_CONFIG
    [] reason \in {VT_FAIL_INITIAL_VOLTAGE_A, VT_FAIL_INITIAL_VOLTAGE_B,
                   VT_FAIL_INITIAL_RETRY} -> VT_STEP_CHECK_INITIAL
    [] reason = VT_FAIL_OPEN_CMD_TIMEOUT -> VT_STEP_SEND_OPEN
    [] reason = VT_FAIL_OPEN_DETECT_TIMEOUT -> VT_STEP_DETECT_OPENING
    [] reason = VT_FAIL_OPEN_STATE_CHECK -> VT_STEP_CHECK_OPEN_STATE
    [] reason = VT_FAIL_CLOSE_CMD_TIMEOUT -> VT_STEP_SEND_CLOSE
    [] reason = VT_FAIL_CLOSE_DETECT_TIMEOUT -> VT_STEP_DETECT_CLOSING
    [] reason = VT_FAIL_CLOSE_STATE_CHECK -> VT_STEP_CHECK_CLOSE_STATE

\* C27: whenever the recorded reason is neither NoFailure nor TotalTimeout,
\* it is one of the reasons a step declares and fail_step is that step, so no
\* reason is ever recorded with two different steps.
C27_ReasonNamesItsStep ==
  ctx.fail_reason \notin {VT_FAIL_NONE, VT_FAIL_TOTAL_TIMEOUT} =>
    /\ ctx.fail_reason \in
         {VT_FAIL_CONFIG_RETRY, VT_FAIL_INITIAL_VOLTAGE_A,
          VT_FAIL_INITIAL_VOLTAGE_B, VT_FAIL_INITIAL_RETRY,
          VT_FAIL_OPEN_CMD_TIMEOUT, VT_FAIL_OPEN_DETECT_TIMEOUT,
          VT_FAIL_OPEN_STATE_CHECK, VT_FAIL_CLOSE_CMD_TIMEOUT,
          VT_FAIL_CLOSE_DETECT_TIMEOUT, VT_FAIL_CLOSE_STATE_CHECK}
    /\ ctx.fail_step = DeclaringStep(ctx.fail_reason)
    /\ Failed(ctx) \/ ctx.result = VT_IDLE

\* C27 witness: a session ended in SendOpen with OpenCmdTimeout
C27_Witness ==
  /\ ctx.enabled = 0
  /\ ctx.result = VT_FAIL
  /\ ctx.fail_reason = VT_FAIL_OPEN_CMD_TIMEOUT
  /\ ctx.fail_step = VT_STEP_SEND_OPEN

\* C28: no close command, first send or resend, ever goes out while the
\* open-position or the close-position output is asserted; in a state in
\* which a close command has just been sent both outputs are inactive.
C28_CloseSentWithOutputsOff ==
  /\ ~hal.close_sent_asserted
  /\ (\E i \in 1..Len(hal.sent) : hal.sent[i] = "close") =>
       /\ hal.open_signal = 0
       /\ hal.close_signal = 0

\* C28 witness: the close command has been resent after a mismatching
\* acknowledgement in SendClose
C28_Witness ==
  /\ last_op = "Loop"
  /\ ctx.current_step = VT_STEP_SEND_CLOSE
  /\ ctx.retry_count = 1
  /\ hal.sent = <<"close">>
  /\ hal.open_signal = 0

\* C29: of the RM_TryRetry calls made since the last RM_Init or RM_Reset,
\* with max_retry > 0 exactly the first max_retry return RM_RESULT_RETRY_OK
\* and every further one RM_RESULT_RETRY_EXHAUSTED; with max_retry = 0 every
\* call returns RM_RESULT_NO_RETRY_CONFIG; retry_count never exceeds
\* max_retry; and a call that does not return RETRY_OK invokes no callback
\* and leaves the state of the manager and of the time manager as it was.
C29_RetryBudget ==
  [][(rm'.h.op = "RM_TryRetry" /\ rm'.h.tries = rm.h.tries + 1) =>
       /\ rm'.h.result =
            (IF rm.s.max_retry = 0 THEN RM_RESULT_NO_RETRY_CONFIG
             ELSE IF rm.h.tries < rm.s.max_retry THEN RM_RESULT_RETRY_OK
             ELSE RM_RESULT_RETRY_EXHAUSTED)
       /\ rm'.s.retry_count <= rm'.s.max_retry
       /\ rm'.h.result # RM_RESULT_RETRY_OK =>
            /\ rm'.s = rm.s
            /\ rm'.h.calls = <<>>]_vars

\* C29 witness: with max_retry = 2, a fourth RM_TryRetry call has been
\* refused as exhausted, the count standing at 2
C29_Witness ==
  /\ rm.h.op = "RM_TryRetry"
  /\ rm.h.result = RM_RESULT_RETRY_EXHAUSTED
  /\ rm.s.max_retry = 2
  /\ rm.s.retry_count = 2
  /\ rm.h.tries = 4

\* C30 (as the claim states it): every RM_TryRetry call that returns
\* RM_RESULT_RETRY_OK has its retry action invoked exactly once, at once or
\* by the RM_CheckRetryDelayComplete call that finds the delay elapsed; so
\* unless RM_CancelRetryDelay, RM_Reset or RM_Init has intervened, no granted
\* retry is still owed its action once the manager no longer waits for a
\* delay.
C30_EveryRetryActsOnce ==
  ~rm.s.waiting_retry_delay => rm.h.owed = 0

\* C31 (as the claim states it): a mismatching response is processed once.
\* The tick that finds it marks it consumed (response_received = 2), adds one
\* to retry_count and sends at most one command; every later tick that
\* reaches the wait step while the consumed mark stands sends nothing and
\* leaves retry_count as it is, and before the step timeout it changes
\* nothing but the two timers and returns Running.
C31_MismatchProcessedOnce ==
  [][last_op' = "Loop" =>
       /\ obs'.event = "mismatch" =>
            /\ ctx'.response_received = 2
            /\ ctx'.retry_count = ctx.retry_count + 1
            /\ Len(hal'.sent) <= 1
       /\ (/\ StepRuns(ctx, hal, obs'.tick)
           /\ ctx.current_step \in WaitSteps
           /\ ctx.response_received = 2) =>
            /\ ctx'.retry_count = ctx.retry_count
            /\ hal'.sent = <<>>
            /\ StepTimeAt(ctx, obs'.tick) < ctx.step_timeout_ms =>
                 /\ ctx' = AddTick(Now, obs'.tick).ctx
                 /\ ret' = VT_RUNNING]_vars

\* the timeouts (ms) the calls of enter_step give for a step; Done is never
\* entered through enter_step
EntryTimeouts(step) ==
  CASE step = VT_STEP_CONFIG -> {VALVE_CONFIG_TIMEOUT_MS}
    [] step = VT_STEP_CHECK_INITIAL -> {VALVE_INITIAL_CHECK_TIMEOUT_MS}
    [] step = VT_STEP_SEND_OPEN -> {VALVE_OPEN_CMD_TIMEOUT_MS}
    [] step = VT_STEP_DETECT_OPENING -> {VALVE_OPEN_DETECT_TIMEOUT_MS}
    [] step = VT_STEP_OUTPUT_OPEN_SIGNAL -> {1000, 10000}
    [] step = VT_STEP_CHECK_OPEN_STATE -> {VALVE_STATE_CHECK_TIMEOUT_MS}
    [] step = VT_STEP_SEND_CLOSE -> {VALVE_CLOSE_CMD_TIMEOUT_MS}
    [] step = VT_STEP_DETECT_CLOSING -> {VALVE_CLOSE_DETECT_TIMEOUT_MS}
    [] step = VT_STEP_OUTPUT_CLOSE_SIGNAL -> {1000, 5000}
    [] step = VT_STEP_CHECK_CLOSE_STATE -> {VALVE_STATE_CHECK_TIMEOUT_MS}
    [] step = VT_STEP_EVALUATE -> {1000}
    [] OTHER -> {}

\* this Loop call enters a step: current_step changes, or SendOpen is entered
\* again from SendOpen after a failed wait that does not end the session
StepEntered ==
  /\ last_op' = "Loop"
  /\ \/ ctx'.current_step # ctx.current_step
     \/ /\ ctx.current_step = VT_STEP_SEND_OPEN
        /\ ctx'.enabled # 0
        /\ \/ obs'.event = "cmd_timeout"
           \/ obs'.event = "mismatch" /\ ctx.retry_count = ctx.retry_max

\* the four fields as enter_step leaves them (no timeout is defined for
\* Done, so any is accepted there)
EntryReset ==
  /\ ctx'.step_time_ms = 0
  /\ ctx'.retry_count = 0
  /\ ctx'.response_received = 0
  /\ \/ ctx'.current_step = VT_STEP_DONE
     \/ \E t \in EntryTimeouts(ctx'.current_step) :
          ctx'.step_timeout_ms = Ms(t)

\* C32 (as the claim states it): every Loop call that enters a step leaves
\* step_time_ms = 0, retry_count = 0, response_received = 0 and
\* step_timeout_ms at a timeout of the entered step.
C32_EveryEntryResets ==
  [][StepEntered => EntryReset]_vars

\* C32 (amended): every Loop call that enters a step other than Done, the
\* re-entry of a step by a retry included, leaves step_time_ms = 0,
\* retry_count = 0, response_received = 0 and step_timeout_ms at the timeout
\* given at that entry; the step Evaluate -> Done leaves the step timer and
\* the step timeout as they were.
C32_EntryResetsExceptDone ==
  [][StepEntered =>
       IF ctx'.current_step = VT_STEP_DONE
       THEN /\ ctx'.step_time_ms = StepTimeAt(ctx, obs'.tick)
            /\ ctx'.step_timeout_ms = ctx.step_timeout_ms
       ELSE EntryReset]_vars

\* C32 witness: a failed CheckOpenState sample has sent the session back to
\* OutputOpenSignal, entered with a timeout of 10 000 ms and cleared counters
C32_Witness ==
  /\ last_op = "Loop"
  /\ obs.event = "state_violation"
  /\ ctx.current_step = VT_STEP_OUTPUT_OPEN_SIGNAL
  /\ ctx.step_timeout_ms = Ms(10000)
  /\ ctx.step_time_ms = 0
  /\ ctx.retry_count = 0
  /\ obs.tick = Ms(5000)

\* C33: the Loop call that runs OutputOpenSignal (OutputCloseSignal) asserts
\* the position output and requests the delay of 500 ms; from then on a Loop
\* call that finds the delay pending samples no voltage and stays in
\* CheckOpenState (CheckCloseState) with the outputs as they are, and the
\* first call that finds the delay over runs the check, which always leaves
\* the step, unless that call ends the session by the whole-test timeout.
C33_CheckWaitsForSettle ==
  [][(last_op' = "Loop" /\ ctx.enabled # 0) =>
       /\ (ctx.current_step = VT_STEP_OUTPUT_OPEN_SIGNAL
             /\ ctx'.current_step = VT_STEP_CHECK_OPEN_STATE) =>
            /\ hal'.soft_delay = VALVE_SIGNAL_DELAY_MS
            /\ hal'.open_signal = 1
       /\ (ctx.current_step = VT_STEP_OUTPUT_CLOSE_SIGNAL
             /\ ctx'.current_step = VT_STEP_CHECK_CLOSE_STATE) =>
            /\ hal'.soft_delay = VALVE_SIGNAL_DELAY_MS
            /\ hal'.close_signal = 1
       /\ ctx.current_step \in StateCheckSteps =>
            IF hal.soft_delay # 0
            THEN /\ ctx'.voltage_a = ctx.voltage_a
                 /\ ctx'.voltage_b = ctx.voltage_b
                 /\ ctx'.current_step = ctx.current_step
                 /\ ctx'.retry_count = ctx.retry_count
                 /\ hal' = [hal EXCEPT !.sent = <<>>]
            ELSE \/ ctx'.current_step # ctx.current_step
                 \/ /\ ctx'.enabled = 0
                    /\ ctx'.fail_reason = VT_FAIL_TOTAL_TIMEOUT]_vars

\* C33 witness: a tick of 5000 ms was given in CheckOpenState while the
\* settle delay was still pending; the session is still in that step, the
\* open-position output asserted, no voltage sampled since Start
C33_Witness ==
  /\ last_op = "Loop"
  /\ ctx.enabled # 0
  /\ ctx.current_step = VT_STEP_CHECK_OPEN_STATE
  /\ hal.soft_delay = VALVE_SIGNAL_DELAY_MS
  /\ hal.open_signal = 1
  /\ ctx.step_time_ms = Ms(5000)

\* C34 (as the claim states it): a CheckInitial sample that violates
\* (A > 100, B < 100) and is retried takes the session back to Init, whose
\* next tick sends the configuration command again, or has that command
\* sent by the retrying tick itself.
C34_InitialRetryResendsConfig ==
  [][(last_op' = "Loop" /\ obs'.event = "initial_violation"
        /\ ctx'.enabled # 0) =>
       \/ ctx'.current_step = VT_STEP_INIT
       \/ \E i \in 1..Len(hal'.sent) : hal'.sent[i] = "config"]_vars

C39_CloseSentAtMostFourTimes ==
  obs.closes <= 1 + ctx.retry_max

\* C39 witness: the close command has been sent four times, the last of them
\* by the third mismatch in SendClose
C39_Witness ==
  /\ obs.closes = 4
  /\ last_op = "Loop"
  /\ ctx.current_step = VT_STEP_SEND_CLOSE
  /\ ctx.retry_count = 3
  /\ hal.sent = <<"close">>

\* C36 (as the claim states it): whenever the session is terminal (enabled
\* false with result Success, Timeout or Fail) both position outputs are at
\* their inactive level.
C36_TerminalOutputsInactive ==
  (ctx.enabled = 0 /\ ctx.result \in {VT_SUCCESS, VT_TIMEOUT, VT_FAIL}) =>
    (hal.open_signal = 0 /\ hal.close_signal = 0)

\* C37: the two position outputs are never asserted together; the levels
\* driven are (inactive, inactive), (open asserted, close inactive) or
\* (open inactive, close asserted).
C37_OutputsNeverBothAsserted ==
  <<hal.open_signal, hal.close_signal>> \in {<<0, 0>>, <<1, 0>>, <<0, 1>>}

\* C37 witness: the close-position output is asserted in CheckCloseState,
\* after the open-position output was asserted earlier in the session, and
\* the open-position output is inactive
C37_Witness ==
  /\ ctx.enabled # 0
  /\ ctx.current_step = VT_STEP_CHECK_CLOSE_STATE
  /\ hal.close_signal = 1
  /\ hal.open_signal = 0

\* C38 (as the claim states it): IsRunning (enabled) is true if and only if
\* the stored result is Running.
C38_RunningIffEnabled ==
  ValveCtrl_Core_IsRunning(ctx) <=> (ValveCtrl_Core_GetResult(ctx) = VT_RUNNING)

\* C40: current_step is always one of the 13 steps of the test sequence, and
\* neither current_step nor fail_step is ever one of the three query steps.
C40_QueryStepsUnused ==
  /\ \E i \in 1..Len(StepOrder) : StepOrder[i] = ctx.current_step
  /\ Len(StepOrder) = 13
  /\ ctx.current_step \notin {VT_STEP_QUERY_INITIAL, VT_STEP_QUERY_OPEN_STATE,
                              VT_STEP_QUERY_CLOSE_STATE}
  /\ ctx.fail_step \notin {VT_STEP_QUERY_INITIAL, VT_STEP_QUERY_OPEN_STATE,
                           VT_STEP_QUERY_CLOSE_STATE}

\* C40 witness: a session has passed Config and CheckInitial, on either side
\* of the unused step QueryInitial, and has ended by the whole-test timeout
\* in SendOpen, which is recorded as fail_step
C40_Witness ==
  /\ ctx.enabled = 0
  /\ ctx.result = VT_TIMEOUT
  /\ ctx.fail_reason = VT_FAIL_TOTAL_TIMEOUT
  /\ ctx.current_step = VT_STEP_SEND_OPEN
  /\ ctx.fail_step = VT_STEP_SEND_OPEN

====
